---- MODULE Spec2Model ----
(***************************************************************************)
(* Bangalore Real Estate Price Predictor, frontend application (app.js).   *)
(*                                                                         *)
(* The module models the browser-side pipeline: map initialisation, the    *)
(* location autocomplete loader, the prediction client with its fallback   *)
(* to the mock estimator, the result renderer and the map renderer.        *)
(*                                                                         *)
(* Numbers.  A JavaScript number is an IEEE 754 double and is modelled as  *)
(* the exact value it holds, [neg, m, e] for (-1)^neg * m * 2^e; +, -, *   *)
(* and / round their exact result to the nearest double, ties to even, as  *)
(* the code's arithmetic does.  Numbers that are integers below 2^31 by    *)
(* construction (bhk, a comparable's total_sqft and price_per_sqft) are    *)
(* integers of the model.  A Math.random() value is drawn from a finite    *)
(* set of doubles.                                                         *)
(* Strings that the code computes with (locations, the text toFixed gives) *)
(* are sequences of UTF-16 code units, each a number.  In the texts the    *)
(* page only displays the rupee sign is written "Rs." and the bullet "|".  *)
(***************************************************************************)
EXTENDS Integers, Sequences, FiniteSets, TLC

\* ------------------------------------------------------------------------
\* Bounds of the model
\* ------------------------------------------------------------------------

\* Largest bhk a request carries (requests carry bhk in 0..MaxBhk).
MaxBhk == 3

\* Number of form submissions (predictPrice calls) in one behaviour.
MaxCalls == 2

\* Largest number of entries in a backend /api/locations body.
MaxLocations == 3

\* Largest number of nearby_comparables in a backend /api/predict body.
MaxBackendComparables == 2

\* ------------------------------------------------------------------------
\* Numbers
\* ------------------------------------------------------------------------

\* A natural number of any size is the sequence of its digits in base
\* 2^LimbBits, least significant first, without leading zeros (0 is <<>>).
LimbBits == 10

LimbBase == 2 ^ LimbBits

\* The significand of a double has 53 bits.
Precision == 53

Limb(a, i) == IF i <= Len(a) THEN a[i] ELSE 0

RECURSIVE Trim(_)
Trim(a) ==
  IF a = <<>> THEN a
  ELSE IF a[Len(a)] = 0 THEN Trim(SubSeq(a, 1, Len(a) - 1))
  ELSE a

\* The natural number n >= 0, and back (for a value below 2^31).
RECURSIVE NatOf(_)
NatOf(n) == IF n = 0 THEN <<>> ELSE <<n % LimbBase>> \o NatOf(n \div LimbBase)

RECURSIVE IntOf(_)
IntOf(a) == IF a = <<>> THEN 0 ELSE Head(a) + LimbBase * IntOf(Tail(a))

RECURSIVE Zeros(_)
Zeros(n) == IF n <= 0 THEN <<>> ELSE <<0>> \o Zeros(n - 1)

RECURSIVE AddFrom(_, _, _, _)
AddFrom(a, b, i, carry) ==
  IF i > Len(a) /\ i > Len(b) THEN NatOf(carry)
  ELSE LET s == Limb(a, i) + Limb(b, i) + carry
       IN  <<s % LimbBase>> \o AddFrom(a, b, i + 1, s \div LimbBase)

NatAdd(a, b) == AddFrom(a, b, 1, 0)

\* a - b for a >= b.
RECURSIVE SubFrom(_, _, _, _)
SubFrom(a, b, i, borrow) ==
  IF i > Len(a) THEN <<>>
  ELSE LET d == a[i] - Limb(b, i) - borrow
       IN  <<d % LimbBase>> \o SubFrom(a, b, i + 1, IF d < 0 THEN 1 ELSE 0)

NatSub(a, b) == Trim(SubFrom(a, b, 1, 0))

\* -1, 0 or 1 as a < b, a = b or a > b.
RECURSIVE CmpFrom(_, _, _)
CmpFrom(a, b, i) ==
  IF i = 0 THEN 0
  ELSE IF a[i] < b[i] THEN -1
  ELSE IF a[i] > b[i] THEN 1
  ELSE CmpFrom(a, b, i - 1)

NatCmp(a, b) ==
  IF Len(a) < Len(b) THEN -1
  ELSE IF Len(a) > Len(b) THEN 1
  ELSE CmpFrom(a, b, Len(a))

\* a * k for 0 < k < 2^20.
RECURSIVE MulSmallFrom(_, _, _, _)
MulSmallFrom(a, k, i, carry) ==
  IF i > Len(a) THEN NatOf(carry)
  ELSE LET p == a[i] * k + carry
       IN  <<p % LimbBase>> \o MulSmallFrom(a, k, i + 1, p \div LimbBase)

NatMulSmall(a, k) == IF k = 0 THEN <<>> ELSE MulSmallFrom(a, k, 1, 0)

\* a * LimbBase^n
ShiftLimbs(a, n) == IF a = <<>> THEN <<>> ELSE Zeros(n) \o a

RECURSIVE MulFrom(_, _, _)
MulFrom(a, b, i) ==
  IF i > Len(b) THEN <<>>
  ELSE NatAdd(NatMulSmall(a, b[i]), ShiftLimbs(MulFrom(a, b, i + 1), 1))

NatMul(a, b) == MulFrom(a, b, 1)

\* Quotient and remainder of a by d, 0 < d <= 2^20, from the top digit down.
RECURSIVE DivFrom(_, _, _, _)
DivFrom(a, d, i, rem) ==
  IF i = 0 THEN [q |-> <<>>, r |-> rem]
  ELSE LET cur == rem * LimbBase + a[i]
           lower == DivFrom(a, d, i - 1, cur % d)
       IN  [q |-> Append(lower.q, cur \div d), r |-> lower.r]

NatDivSmall(a, d) == [DivFrom(a, d, Len(a), 0) EXCEPT !.q = Trim(@)]

RECURSIVE BitLenInt(_)
BitLenInt(n) == IF n = 0 THEN 0 ELSE 1 + BitLenInt(n \div 2)

BitLen(a) ==
  IF a = <<>> THEN 0 ELSE LimbBits * (Len(a) - 1) + BitLenInt(a[Len(a)])

\* a * 2^n and floor(a / 2^n).
ShiftLeft(a, n) ==
  IF n = 0 THEN a
  ELSE ShiftLimbs(NatMulSmall(a, 2 ^ (n % LimbBits)), n \div LimbBits)

ShiftRight(a, n) ==
  IF n = 0 THEN a
  ELSE IF n \div LimbBits >= Len(a) THEN <<>>
  ELSE NatDivSmall(SubSeq(a, (n \div LimbBits) + 1, Len(a)), 2 ^ (n % LimbBits)).q

RECURSIVE TrailingZerosInt(_)
TrailingZerosInt(n) == IF n % 2 = 1 THEN 0 ELSE 1 + TrailingZerosInt(n \div 2)

\* The number of trailing zero bits of a > 0.
RECURSIVE TrailingZeros(_)
TrailingZeros(a) ==
  IF Head(a) = 0 THEN LimbBits + TrailingZeros(Tail(a))
  ELSE TrailingZerosInt(Head(a))

\* A finite real number with a binary expansion (a dyadic) is
\* [neg, m, e]: (-1)^neg * m * 2^e with m odd, or Zero.  A JavaScript number
\* is the dyadic it denotes: a dyadic whose m has at most Precision bits.
\* (The numbers of the program stay far from the exponent range's ends, so
\* infinities, NaN and subnormals do not occur; the sign of a zero is not
\* modelled.)
Zero == [neg |-> FALSE, m |-> <<>>, e |-> 0]

Dyadic(neg, m, e) ==
  IF m = <<>> THEN Zero
  ELSE [neg |-> neg, m |-> ShiftRight(m, TrailingZeros(m)),
        e |-> e + TrailingZeros(m)]

\* The double nearest to the dyadic v, ties to the even significand: the
\* rounding of every arithmetic operation on doubles.
\* v.m has n bits too many and r is v.m without its n - 1 lowest bits: the
\* lowest bit of r is the first bit dropped.  The bits below it are not all
\* zero unless n = 1 (v.m is odd), so the dyadic lies half-way between two
\* doubles only when n = 1, and then the even significand is taken.
Nearest(v, n, r) ==
  Dyadic(v.neg,
         NatDivSmall(IF r[1] % 2 = 1 /\ (n > 1 \/ r[1] % 4 = 3)
                     THEN NatAdd(r, <<1>>) ELSE r, 2).q,
         v.e + n)

Fl(v) ==
  IF BitLen(v.m) <= Precision THEN v
  ELSE Nearest(v, BitLen(v.m) - Precision,
               ShiftRight(v.m, BitLen(v.m) - Precision - 1))

\* Exact arithmetic on dyadics.
Neg(x) == IF x.m = <<>> THEN x ELSE [x EXCEPT !.neg = ~@]

\* (-1)^xneg * a * 2^e + (-1)^yneg * b * 2^e
SumAligned(xneg, a, yneg, b, e) ==
  IF xneg = yneg THEN Dyadic(xneg, NatAdd(a, b), e)
  ELSE IF NatCmp(a, b) < 0 THEN Dyadic(yneg, NatSub(b, a), e)
  ELSE Dyadic(xneg, NatSub(a, b), e)

Min(a, b) == IF a < b THEN a ELSE b

Sum(x, y) ==
  IF x.m = <<>> THEN y
  ELSE IF y.m = <<>> THEN x
  ELSE SumAligned(x.neg, ShiftLeft(x.m, x.e - Min(x.e, y.e)),
                  y.neg, ShiftLeft(y.m, y.e - Min(x.e, y.e)), Min(x.e, y.e))

Product(x, y) ==
  IF x.m = <<>> \/ y.m = <<>> THEN Zero
  ELSE Dyadic(x.neg # y.neg, NatMul(x.m, y.m), x.e + y.e)

\* The integer n as a dyadic.
Integer(n) == Dyadic(n < 0, NatOf(IF n < 0 THEN -n ELSE n), 0)

\* The position of the leading bit of a non-zero dyadic.
Top(x) == BitLen(x.m) + x.e

\* |x| < |y| for non-zero x and y: by the leading bits, then by the aligned
\* mantissas.
MagLess(x, y) ==
  IF Top(x) # Top(y) THEN Top(x) < Top(y)
  ELSE NatCmp(ShiftLeft(x.m, x.e - Min(x.e, y.e)),
              ShiftLeft(y.m, y.e - Min(x.e, y.e))) < 0

\* x < y
Less(x, y) ==
  IF x.m = <<>> THEN y.m # <<>> /\ ~y.neg
  ELSE IF y.m = <<>> THEN x.neg
  ELSE IF x.neg # y.neg THEN x.neg
  ELSE IF x.neg THEN MagLess(y, x)
  ELSE MagLess(x, y)

\* Math.floor
Floor(v) ==
  IF v.e >= 0 THEN v
  ELSE IF v.neg THEN Dyadic(TRUE, NatAdd(ShiftRight(v.m, -v.e), <<1>>), 0)
  ELSE Dyadic(FALSE, ShiftRight(v.m, -v.e), 0)

\* The integer a dyadic is, for one below 2^31 in magnitude.
ToInt(v) == (IF v.neg THEN -1 ELSE 1) * IntOf(ShiftLeft(v.m, v.e))

\* The double nearest to x / d for a dyadic x and an integer 0 < d <= 2^20:
\* the quotient is taken to two bits more than a significand holds, and a
\* remainder is kept as one more bit below them (it decides no tie).
WithRemainderBit(res) ==
  NatAdd(NatMulSmall(res.q, 2), IF res.r = 0 THEN <<>> ELSE <<1>>)

QuotientTo(x, d, s) ==
  Fl(Dyadic(x.neg, WithRemainderBit(NatDivSmall(ShiftLeft(x.m, s), d)),
            x.e - s - 1))

Quotient(x, d) ==
  IF x.m = <<>> THEN Zero ELSE QuotientTo(x, d, Precision + 2 + BitLenInt(d))

\* The double a decimal literal n / d denotes (d a power of ten).
Decimal(n, d) == Quotient(Integer(n), d)

\* The operators +, -, * of JavaScript on doubles, and / by an integer.
FAdd(x, y) == Fl(Sum(x, y))
FSub(x, y) == Fl(Sum(x, Neg(y)))
FMul(x, y) == Fl(Product(x, y))
FDiv(x, d) == Quotient(x, d)

\* The natural number an integer-valued dyadic v >= 0 is.
NatOfDyadic(v) == ShiftLeft(v.m, v.e)

\* Math.abs
Abs(x) == IF x.m = <<>> THEN x ELSE [x EXCEPT !.neg = FALSE]

\* Math.round(x): floor(x + 0.5), computed exactly.
MathRound(x) == Floor(Sum(x, Dyadic(FALSE, <<1>>, -1)))

\* The decimal digits of a natural number, as code units ("0" is U+0030).
RECURSIVE DigitsOf(_)
DigitsOf(a) ==
  IF a = <<>> THEN <<>>
  ELSE DigitsOf(NatDivSmall(a, 10).q) \o <<48 + NatDivSmall(a, 10).r>>

\* The text of a sign and of res.q units and res.r hundredths: "-" is
\* U+002D, "." is U+002E.
FixedText(neg, res) ==
  (IF neg THEN <<45>> ELSE <<>>)
    \o (IF res.q = <<>> THEN <<48>> ELSE DigitsOf(res.q))
    \o <<46, 48 + (res.r \div 10), 48 + (res.r % 10)>>

\* x.toFixed(2) for |x| < 10^21: "-" when x < 0, then the digits of the
\* integer n with n / 100 nearest to |x| (the larger n when two are as
\* near), the last two after the point.
ToFixed2(x) ==
  FixedText(x.neg,
            NatDivSmall(NatOfDyadic(MathRound(Product(Abs(x), Integer(100)))),
                        100))

\* 0.5
Half == Dyadic(FALSE, <<1>>, -1)

\* Math.random() returns a double in [0, 1): the model draws k / RandDen (the
\* double the decimal denotes) for an integer k in 0 .. RandDen - 1, and the
\* largest double below 1.
RandDen == 1000000

Random(k) == Decimal(k, RandDen)

AlmostOne == Dyadic(FALSE, NatSub(ShiftLeft(<<1>>, Precision), <<1>>), -Precision)

\* A latitude or longitude literal with four decimals, n / 10000.
Degrees(n) == Decimal(n, 10000)

\* CONFIG.BANGALORE_CENTER = [12.9716, 77.5946]
BANGALORE_CENTER == <<Degrees(129716), Degrees(775946)>>

\* ------------------------------------------------------------------------
\* Strings
\* ------------------------------------------------------------------------

\* A JavaScript string is the sequence of its UTF-16 code units, each a
\* number.  Units(<<"H", "S", "R">>) is the string of the ASCII letters and
\* spaces written.
Letters ==
  <<"A", "B", "C", "D", "E", "F", "G", "H", "I", "J", "K", "L", "M",
    "N", "O", "P", "Q", "R", "S", "T", "U", "V", "W", "X", "Y", "Z",
    "a", "b", "c", "d", "e", "f", "g", "h", "i", "j", "k", "l", "m",
    "n", "o", "p", "q", "r", "s", "t", "u", "v", "w", "x", "y", "z">>

\* U+0020 for the space, U+0041.. for the capitals, U+0061.. for the rest.
CodeUnitOf(ch) ==
  IF ch = " " THEN 32
  ELSE (CHOOSE i \in 1..52 : Letters[i] = ch) + (IF ch \in {Letters[i] : i \in 1..26} THEN 64 ELSE 70)

Units(s) == [i \in 1..Len(s) |-> CodeUnitOf(s[i])]

\* String.prototype.toLowerCase lower-cases the code points of the string by
\* the Unicode default case conversion.  The three tables are those of the
\* Unicode Character Database, version 17.0, as runs of code points.
\*
\* Simple_Lowercase_Mapping: <<first, last, step, delta>> maps first,
\* first + step, .., last to themselves plus delta.  U+0130 is left out (its
\* lower-case form has two code points) and U+03A3 is given its form that is
\* not final.
SimpleLowercase ==
  << <<65, 90, 1, 32>>, <<192, 214, 1, 32>>, <<216, 222, 1, 32>>,
     <<256, 302, 2, 1>>, <<306, 310, 2, 1>>, <<313, 327, 2, 1>>,
     <<330, 374, 2, 1>>, <<376, 376, 1, -121>>, <<377, 381, 2, 1>>,
     <<385, 385, 1, 210>>, <<386, 388, 2, 1>>, <<390, 390, 1, 206>>,
     <<391, 391, 1, 1>>, <<393, 394, 1, 205>>, <<395, 395, 1, 1>>,
     <<398, 398, 1, 79>>, <<399, 399, 1, 202>>, <<400, 400, 1, 203>>,
     <<401, 401, 1, 1>>, <<403, 403, 1, 205>>, <<404, 404, 1, 207>>,
     <<406, 406, 1, 211>>, <<407, 407, 1, 209>>, <<408, 408, 1, 1>>,
     <<412, 412, 1, 211>>, <<413, 413, 1, 213>>, <<415, 415, 1, 214>>,
     <<416, 420, 2, 1>>, <<422, 422, 1, 218>>, <<423, 423, 1, 1>>,
     <<425, 425, 1, 218>>, <<428, 428, 1, 1>>, <<430, 430, 1, 218>>,
     <<431, 431, 1, 1>>, <<433, 434, 1, 217>>, <<435, 437, 2, 1>>,
     <<439, 439, 1, 219>>, <<440, 440, 1, 1>>, <<444, 444, 1, 1>>,
     <<452, 452, 1, 2>>, <<453, 453, 1, 1>>, <<455, 455, 1, 2>>,
     <<456, 456, 1, 1>>, <<458, 458, 1, 2>>, <<459, 475, 2, 1>>,
     <<478, 494, 2, 1>>, <<497, 497, 1, 2>>, <<498, 500, 2, 1>>,
     <<502, 502, 1, -97>>, <<503, 503, 1, -56>>, <<504, 542, 2, 1>>,
     <<544, 544, 1, -130>>, <<546, 562, 2, 1>>, <<570, 570, 1, 10795>>,
     <<571, 571, 1, 1>>, <<573, 573, 1, -163>>, <<574, 574, 1, 10792>>,
     <<577, 577, 1, 1>>, <<579, 579, 1, -195>>, <<580, 580, 1, 69>>,
     <<581, 581, 1, 71>>, <<582, 590, 2, 1>>, <<880, 882, 2, 1>>,
     <<886, 886, 1, 1>>, <<895, 895, 1, 116>>, <<902, 902, 1, 38>>,
     <<904, 906, 1, 37>>, <<908, 908, 1, 64>>, <<910, 911, 1, 63>>,
     <<913, 929, 1, 32>>, <<931, 939, 1, 32>>, <<975, 975, 1, 8>>,
     <<984, 1006, 2, 1>>, <<1012, 1012, 1, -60>>, <<1015, 1015, 1, 1>>,
     <<1017, 1017, 1, -7>>, <<1018, 1018, 1, 1>>, <<1021, 1023, 1, -130>>,
     <<1024, 1039, 1, 80>>, <<1040, 1071, 1, 32>>, <<1120, 1152, 2, 1>>,
     <<1162, 1214, 2, 1>>, <<1216, 1216, 1, 15>>, <<1217, 1229, 2, 1>>,
     <<1232, 1326, 2, 1>>, <<1329, 1366, 1, 48>>, <<4256, 4293, 1, 7264>>,
     <<4295, 4295, 1, 7264>>, <<4301, 4301, 1, 7264>>, <<5024, 5103, 1, 38864>>,
     <<5104, 5109, 1, 8>>, <<7305, 7305, 1, 1>>, <<7312, 7354, 1, -3008>>,
     <<7357, 7359, 1, -3008>>, <<7680, 7828, 2, 1>>, <<7838, 7838, 1, -7615>>,
     <<7840, 7934, 2, 1>>, <<7944, 7951, 1, -8>>, <<7960, 7965, 1, -8>>,
     <<7976, 7983, 1, -8>>, <<7992, 7999, 1, -8>>, <<8008, 8013, 1, -8>>,
     <<8025, 8031, 2, -8>>, <<8040, 8047, 1, -8>>, <<8072, 8079, 1, -8>>,
     <<8088, 8095, 1, -8>>, <<8104, 8111, 1, -8>>, <<8120, 8121, 1, -8>>,
     <<8122, 8123, 1, -74>>, <<8124, 8124, 1, -9>>, <<8136, 8139, 1, -86>>,
     <<8140, 8140, 1, -9>>, <<8152, 8153, 1, -8>>, <<8154, 8155, 1, -100>>,
     <<8168, 8169, 1, -8>>, <<8170, 8171, 1, -112>>, <<8172, 8172, 1, -7>>,
     <<8184, 8185, 1, -128>>, <<8186, 8187, 1, -126>>, <<8188, 8188, 1, -9>>,
     <<8486, 8486, 1, -7517>>, <<8490, 8490, 1, -8383>>,
     <<8491, 8491, 1, -8262>>, <<8498, 8498, 1, 28>>, <<8544, 8559, 1, 16>>,
     <<8579, 8579, 1, 1>>, <<9398, 9423, 1, 26>>, <<11264, 11311, 1, 48>>,
     <<11360, 11360, 1, 1>>, <<11362, 11362, 1, -10743>>,
     <<11363, 11363, 1, -3814>>, <<11364, 11364, 1, -10727>>,
     <<11367, 11371, 2, 1>>, <<11373, 11373, 1, -10780>>,
     <<11374, 11374, 1, -10749>>, <<11375, 11375, 1, -10783>>,
     <<11376, 11376, 1, -10782>>, <<11378, 11378, 1, 1>>,
     <<11381, 11381, 1, 1>>, <<11390, 11391, 1, -10815>>,
     <<11392, 11490, 2, 1>>, <<11499, 11501, 2, 1>>, <<11506, 11506, 1, 1>>,
     <<42560, 42604, 2, 1>>, <<42624, 42650, 2, 1>>, <<42786, 42798, 2, 1>>,
     <<42802, 42862, 2, 1>>, <<42873, 42875, 2, 1>>,
     <<42877, 42877, 1, -35332>>, <<42878, 42886, 2, 1>>,
     <<42891, 42891, 1, 1>>, <<42893, 42893, 1, -42280>>,
     <<42896, 42898, 2, 1>>, <<42902, 42920, 2, 1>>,
     <<42922, 42922, 1, -42308>>, <<42923, 42923, 1, -42319>>,
     <<42924, 42924, 1, -42315>>, <<42925, 42925, 1, -42305>>,
     <<42926, 42926, 1, -42308>>, <<42928, 42928, 1, -42258>>,
     <<42929, 42929, 1, -42282>>, <<42930, 42930, 1, -42261>>,
     <<42931, 42931, 1, 928>>, <<42932, 42946, 2, 1>>, <<42948, 42948, 1, -48>>,
     <<42949, 42949, 1, -42307>>, <<42950, 42950, 1, -35384>>,
     <<42951, 42953, 2, 1>>, <<42955, 42955, 1, -42343>>,
     <<42956, 42970, 2, 1>>, <<42972, 42972, 1, -42561>>,
     <<42997, 42997, 1, 1>>, <<65313, 65338, 1, 32>>, <<66560, 66599, 1, 40>>,
     <<66736, 66771, 1, 40>>, <<66928, 66938, 1, 39>>, <<66940, 66954, 1, 39>>,
     <<66956, 66962, 1, 39>>, <<66964, 66965, 1, 39>>, <<68736, 68786, 1, 64>>,
     <<68944, 68965, 1, 32>>, <<71840, 71871, 1, 32>>, <<93760, 93791, 1, 32>>,
     <<93856, 93880, 1, 27>>, <<125184, 125217, 1, 34>> >>

\* The property Cased: <<first, last>>.
Cased ==
  << <<65, 90>>, <<97, 122>>, <<170, 170>>, <<181, 181>>, <<186, 186>>,
     <<192, 214>>, <<216, 246>>, <<248, 442>>, <<444, 447>>, <<452, 659>>,
     <<662, 696>>, <<704, 705>>, <<736, 740>>, <<837, 837>>, <<880, 883>>,
     <<886, 887>>, <<890, 893>>, <<895, 895>>, <<902, 902>>, <<904, 906>>,
     <<908, 908>>, <<910, 929>>, <<931, 1013>>, <<1015, 1153>>, <<1162, 1327>>,
     <<1329, 1366>>, <<1376, 1416>>, <<4256, 4293>>, <<4295, 4295>>,
     <<4301, 4301>>, <<4304, 4346>>, <<4348, 4351>>, <<5024, 5109>>,
     <<5112, 5117>>, <<7296, 7306>>, <<7312, 7354>>, <<7357, 7359>>,
     <<7424, 7615>>, <<7680, 7957>>, <<7960, 7965>>, <<7968, 8005>>,
     <<8008, 8013>>, <<8016, 8023>>, <<8025, 8025>>, <<8027, 8027>>,
     <<8029, 8029>>, <<8031, 8061>>, <<8064, 8116>>, <<8118, 8124>>,
     <<8126, 8126>>, <<8130, 8132>>, <<8134, 8140>>, <<8144, 8147>>,
     <<8150, 8155>>, <<8160, 8172>>, <<8178, 8180>>, <<8182, 8188>>,
     <<8305, 8305>>, <<8319, 8319>>, <<8336, 8348>>, <<8450, 8450>>,
     <<8455, 8455>>, <<8458, 8467>>, <<8469, 8469>>, <<8473, 8477>>,
     <<8484, 8484>>, <<8486, 8486>>, <<8488, 8488>>, <<8490, 8493>>,
     <<8495, 8500>>, <<8505, 8505>>, <<8508, 8511>>, <<8517, 8521>>,
     <<8526, 8526>>, <<8544, 8575>>, <<8579, 8580>>, <<9398, 9449>>,
     <<11264, 11492>>, <<11499, 11502>>, <<11506, 11507>>, <<11520, 11557>>,
     <<11559, 11559>>, <<11565, 11565>>, <<42560, 42605>>, <<42624, 42653>>,
     <<42786, 42887>>, <<42891, 42894>>, <<42896, 42972>>, <<42993, 42998>>,
     <<43000, 43002>>, <<43824, 43866>>, <<43868, 43881>>, <<43888, 43967>>,
     <<64256, 64262>>, <<64275, 64279>>, <<65313, 65338>>, <<65345, 65370>>,
     <<66560, 66639>>, <<66736, 66771>>, <<66776, 66811>>, <<66928, 66938>>,
     <<66940, 66954>>, <<66956, 66962>>, <<66964, 66965>>, <<66967, 66977>>,
     <<66979, 66993>>, <<66995, 67001>>, <<67003, 67004>>, <<67456, 67456>>,
     <<67459, 67461>>, <<67463, 67504>>, <<67506, 67514>>, <<68736, 68786>>,
     <<68800, 68850>>, <<68944, 68965>>, <<68976, 68997>>, <<71840, 71903>>,
     <<93760, 93823>>, <<93856, 93880>>, <<93883, 93907>>, <<119808, 119892>>,
     <<119894, 119964>>, <<119966, 119967>>, <<119970, 119970>>,
     <<119973, 119974>>, <<119977, 119980>>, <<119982, 119993>>,
     <<119995, 119995>>, <<119997, 120003>>, <<120005, 120069>>,
     <<120071, 120074>>, <<120077, 120084>>, <<120086, 120092>>,
     <<120094, 120121>>, <<120123, 120126>>, <<120128, 120132>>,
     <<120134, 120134>>, <<120138, 120144>>, <<120146, 120485>>,
     <<120488, 120512>>, <<120514, 120538>>, <<120540, 120570>>,
     <<120572, 120596>>, <<120598, 120628>>, <<120630, 120654>>,
     <<120656, 120686>>, <<120688, 120712>>, <<120714, 120744>>,
     <<120746, 120770>>, <<120772, 120779>>, <<122624, 122633>>,
     <<122635, 122654>>, <<122661, 122666>>, <<122928, 122989>>,
     <<125184, 125251>>, <<127280, 127305>>, <<127312, 127337>>,
     <<127344, 127369>> >>

\* The property Case_Ignorable: <<first, last>>.
CaseIgnorable ==
  << <<39, 39>>, <<46, 46>>, <<58, 58>>, <<94, 94>>, <<96, 96>>, <<168, 168>>,
     <<173, 173>>, <<175, 175>>, <<180, 180>>, <<183, 184>>, <<688, 879>>,
     <<884, 885>>, <<890, 890>>, <<900, 901>>, <<903, 903>>, <<1155, 1161>>,
     <<1369, 1369>>, <<1375, 1375>>, <<1425, 1469>>, <<1471, 1471>>,
     <<1473, 1474>>, <<1476, 1477>>, <<1479, 1479>>, <<1524, 1524>>,
     <<1536, 1541>>, <<1552, 1562>>, <<1564, 1564>>, <<1600, 1600>>,
     <<1611, 1631>>, <<1648, 1648>>, <<1750, 1757>>, <<1759, 1768>>,
     <<1770, 1773>>, <<1807, 1807>>, <<1809, 1809>>, <<1840, 1866>>,
     <<1958, 1968>>, <<2027, 2037>>, <<2042, 2042>>, <<2045, 2045>>,
     <<2070, 2093>>, <<2137, 2139>>, <<2184, 2184>>, <<2192, 2193>>,
     <<2199, 2207>>, <<2249, 2306>>, <<2362, 2362>>, <<2364, 2364>>,
     <<2369, 2376>>, <<2381, 2381>>, <<2385, 2391>>, <<2402, 2403>>,
     <<2417, 2417>>, <<2433, 2433>>, <<2492, 2492>>, <<2497, 2500>>,
     <<2509, 2509>>, <<2530, 2531>>, <<2558, 2558>>, <<2561, 2562>>,
     <<2620, 2620>>, <<2625, 2626>>, <<2631, 2632>>, <<2635, 2637>>,
     <<2641, 2641>>, <<2672, 2673>>, <<2677, 2677>>, <<2689, 2690>>,
     <<2748, 2748>>, <<2753, 2757>>, <<2759, 2760>>, <<2765, 2765>>,
     <<2786, 2787>>, <<2810, 2815>>, <<2817, 2817>>, <<2876, 2876>>,
     <<2879, 2879>>, <<2881, 2884>>, <<2893, 2893>>, <<2901, 2902>>,
     <<2914, 2915>>, <<2946, 2946>>, <<3008, 3008>>, <<3021, 3021>>,
     <<3072, 3072>>, <<3076, 3076>>, <<3132, 3132>>, <<3134, 3136>>,
     <<3142, 3144>>, <<3146, 3149>>, <<3157, 3158>>, <<3170, 3171>>,
     <<3201, 3201>>, <<3260, 3260>>, <<3263, 3263>>, <<3270, 3270>>,
     <<3276, 3277>>, <<3298, 3299>>, <<3328, 3329>>, <<3387, 3388>>,
     <<3393, 3396>>, <<3405, 3405>>, <<3426, 3427>>, <<3457, 3457>>,
     <<3530, 3530>>, <<3538, 3540>>, <<3542, 3542>>, <<3633, 3633>>,
     <<3636, 3642>>, <<3654, 3662>>, <<3761, 3761>>, <<3764, 3772>>,
     <<3782, 3782>>, <<3784, 3790>>, <<3864, 3865>>, <<3893, 3893>>,
     <<3895, 3895>>, <<3897, 3897>>, <<3953, 3966>>, <<3968, 3972>>,
     <<3974, 3975>>, <<3981, 3991>>, <<3993, 4028>>, <<4038, 4038>>,
     <<4141, 4144>>, <<4146, 4151>>, <<4153, 4154>>, <<4157, 4158>>,
     <<4184, 4185>>, <<4190, 4192>>, <<4209, 4212>>, <<4226, 4226>>,
     <<4229, 4230>>, <<4237, 4237>>, <<4253, 4253>>, <<4348, 4348>>,
     <<4957, 4959>>, <<5906, 5908>>, <<5938, 5939>>, <<5970, 5971>>,
     <<6002, 6003>>, <<6068, 6069>>, <<6071, 6077>>, <<6086, 6086>>,
     <<6089, 6099>>, <<6103, 6103>>, <<6109, 6109>>, <<6155, 6159>>,
     <<6211, 6211>>, <<6277, 6278>>, <<6313, 6313>>, <<6432, 6434>>,
     <<6439, 6440>>, <<6450, 6450>>, <<6457, 6459>>, <<6679, 6680>>,
     <<6683, 6683>>, <<6742, 6742>>, <<6744, 6750>>, <<6752, 6752>>,
     <<6754, 6754>>, <<6757, 6764>>, <<6771, 6780>>, <<6783, 6783>>,
     <<6823, 6823>>, <<6832, 6877>>, <<6880, 6891>>, <<6912, 6915>>,
     <<6964, 6964>>, <<6966, 6970>>, <<6972, 6972>>, <<6978, 6978>>,
     <<7019, 7027>>, <<7040, 7041>>, <<7074, 7077>>, <<7080, 7081>>,
     <<7083, 7085>>, <<7142, 7142>>, <<7144, 7145>>, <<7149, 7149>>,
     <<7151, 7153>>, <<7212, 7219>>, <<7222, 7223>>, <<7288, 7293>>,
     <<7376, 7378>>, <<7380, 7392>>, <<7394, 7400>>, <<7405, 7405>>,
     <<7412, 7412>>, <<7416, 7417>>, <<7468, 7530>>, <<7544, 7544>>,
     <<7579, 7679>>, <<8125, 8125>>, <<8127, 8129>>, <<8141, 8143>>,
     <<8157, 8159>>, <<8173, 8175>>, <<8189, 8190>>, <<8203, 8207>>,
     <<8216, 8217>>, <<8228, 8228>>, <<8231, 8231>>, <<8234, 8238>>,
     <<8288, 8292>>, <<8294, 8303>>, <<8305, 8305>>, <<8319, 8319>>,
     <<8336, 8348>>, <<8400, 8432>>, <<11388, 11389>>, <<11503, 11505>>,
     <<11631, 11631>>, <<11647, 11647>>, <<11744, 11775>>, <<11823, 11823>>,
     <<12293, 12293>>, <<12330, 12333>>, <<12337, 12341>>, <<12347, 12347>>,
     <<12441, 12446>>, <<12540, 12542>>, <<40981, 40981>>, <<42232, 42237>>,
     <<42508, 42508>>, <<42607, 42610>>, <<42612, 42621>>, <<42623, 42623>>,
     <<42652, 42655>>, <<42736, 42737>>, <<42752, 42785>>, <<42864, 42864>>,
     <<42888, 42890>>, <<42993, 42996>>, <<43000, 43001>>, <<43010, 43010>>,
     <<43014, 43014>>, <<43019, 43019>>, <<43045, 43046>>, <<43052, 43052>>,
     <<43204, 43205>>, <<43232, 43249>>, <<43263, 43263>>, <<43302, 43309>>,
     <<43335, 43345>>, <<43392, 43394>>, <<43443, 43443>>, <<43446, 43449>>,
     <<43452, 43453>>, <<43471, 43471>>, <<43493, 43494>>, <<43561, 43566>>,
     <<43569, 43570>>, <<43573, 43574>>, <<43587, 43587>>, <<43596, 43596>>,
     <<43632, 43632>>, <<43644, 43644>>, <<43696, 43696>>, <<43698, 43700>>,
     <<43703, 43704>>, <<43710, 43711>>, <<43713, 43713>>, <<43741, 43741>>,
     <<43756, 43757>>, <<43763, 43764>>, <<43766, 43766>>, <<43867, 43871>>,
     <<43881, 43883>>, <<44005, 44005>>, <<44008, 44008>>, <<44013, 44013>>,
     <<64286, 64286>>, <<64434, 64450>>, <<65024, 65039>>, <<65043, 65043>>,
     <<65056, 65071>>, <<65106, 65106>>, <<65109, 65109>>, <<65279, 65279>>,
     <<65287, 65287>>, <<65294, 65294>>, <<65306, 65306>>, <<65342, 65342>>,
     <<65344, 65344>>, <<65392, 65392>>, <<65438, 65439>>, <<65507, 65507>>,
     <<65529, 65531>>, <<66045, 66045>>, <<66272, 66272>>, <<66422, 66426>>,
     <<67456, 67461>>, <<67463, 67504>>, <<67506, 67514>>, <<68097, 68099>>,
     <<68101, 68102>>, <<68108, 68111>>, <<68152, 68154>>, <<68159, 68159>>,
     <<68325, 68326>>, <<68900, 68903>>, <<68942, 68942>>, <<68969, 68973>>,
     <<68975, 68975>>, <<69291, 69292>>, <<69317, 69317>>, <<69370, 69375>>,
     <<69446, 69456>>, <<69506, 69509>>, <<69633, 69633>>, <<69688, 69702>>,
     <<69744, 69744>>, <<69747, 69748>>, <<69759, 69761>>, <<69811, 69814>>,
     <<69817, 69818>>, <<69821, 69821>>, <<69826, 69826>>, <<69837, 69837>>,
     <<69888, 69890>>, <<69927, 69931>>, <<69933, 69940>>, <<70003, 70003>>,
     <<70016, 70017>>, <<70070, 70078>>, <<70089, 70092>>, <<70095, 70095>>,
     <<70191, 70193>>, <<70196, 70196>>, <<70198, 70199>>, <<70206, 70206>>,
     <<70209, 70209>>, <<70367, 70367>>, <<70371, 70378>>, <<70400, 70401>>,
     <<70459, 70460>>, <<70464, 70464>>, <<70502, 70508>>, <<70512, 70516>>,
     <<70587, 70592>>, <<70606, 70606>>, <<70608, 70608>>, <<70610, 70610>>,
     <<70625, 70626>>, <<70712, 70719>>, <<70722, 70724>>, <<70726, 70726>>,
     <<70750, 70750>>, <<70835, 70840>>, <<70842, 70842>>, <<70847, 70848>>,
     <<70850, 70851>>, <<71090, 71093>>, <<71100, 71101>>, <<71103, 71104>>,
     <<71132, 71133>>, <<71219, 71226>>, <<71229, 71229>>, <<71231, 71232>>,
     <<71339, 71339>>, <<71341, 71341>>, <<71344, 71349>>, <<71351, 71351>>,
     <<71453, 71453>>, <<71455, 71455>>, <<71458, 71461>>, <<71463, 71467>>,
     <<71727, 71735>>, <<71737, 71738>>, <<71995, 71996>>, <<71998, 71998>>,
     <<72003, 72003>>, <<72148, 72151>>, <<72154, 72155>>, <<72160, 72160>>,
     <<72193, 72202>>, <<72243, 72248>>, <<72251, 72254>>, <<72263, 72263>>,
     <<72273, 72278>>, <<72281, 72283>>, <<72330, 72342>>, <<72344, 72345>>,
     <<72544, 72544>>, <<72546, 72548>>, <<72550, 72550>>, <<72752, 72758>>,
     <<72760, 72765>>, <<72767, 72767>>, <<72850, 72871>>, <<72874, 72880>>,
     <<72882, 72883>>, <<72885, 72886>>, <<73009, 73014>>, <<73018, 73018>>,
     <<73020, 73021>>, <<73023, 73029>>, <<73031, 73031>>, <<73104, 73105>>,
     <<73109, 73109>>, <<73111, 73111>>, <<73177, 73177>>, <<73459, 73460>>,
     <<73472, 73473>>, <<73526, 73530>>, <<73536, 73536>>, <<73538, 73538>>,
     <<73562, 73562>>, <<78896, 78912>>, <<78919, 78933>>, <<90398, 90409>>,
     <<90413, 90415>>, <<92912, 92916>>, <<92976, 92982>>, <<92992, 92995>>,
     <<93504, 93506>>, <<93547, 93548>>, <<94031, 94031>>, <<94095, 94111>>,
     <<94176, 94177>>, <<94179, 94180>>, <<94194, 94195>>, <<110576, 110579>>,
     <<110581, 110587>>, <<110589, 110590>>, <<113821, 113822>>,
     <<113824, 113827>>, <<118528, 118573>>, <<118576, 118598>>,
     <<119143, 119145>>, <<119155, 119170>>, <<119173, 119179>>,
     <<119210, 119213>>, <<119362, 119364>>, <<121344, 121398>>,
     <<121403, 121452>>, <<121461, 121461>>, <<121476, 121476>>,
     <<121499, 121503>>, <<121505, 121519>>, <<122880, 122886>>,
     <<122888, 122904>>, <<122907, 122913>>, <<122915, 122916>>,
     <<122918, 122922>>, <<122928, 122989>>, <<123023, 123023>>,
     <<123184, 123197>>, <<123566, 123566>>, <<123628, 123631>>,
     <<124139, 124143>>, <<124398, 124399>>, <<124643, 124643>>,
     <<124646, 124646>>, <<124654, 124655>>, <<124661, 124661>>,
     <<124671, 124671>>, <<125136, 125142>>, <<125252, 125259>>,
     <<127995, 127999>>, <<917505, 917505>>, <<917536, 917631>>,
     <<917760, 917999>> >>

\* The row of a table with first <= cp <= last, <<>> when there is none.  The
\* rows are disjoint and in code point order: the search halves rows[lo..hi].
RECURSIVE RowOf(_, _, _, _)
RowOf(rows, cp, lo, hi) ==
  IF lo > hi THEN <<>>
  ELSE IF cp < rows[(lo + hi) \div 2][1]
         THEN RowOf(rows, cp, lo, ((lo + hi) \div 2) - 1)
  ELSE IF cp > rows[(lo + hi) \div 2][2]
         THEN RowOf(rows, cp, ((lo + hi) \div 2) + 1, hi)
  ELSE rows[(lo + hi) \div 2]

\* Is cp in a table of <<first, last>> rows?
InTable(rows, cp) == RowOf(rows, cp, 1, Len(rows)) # <<>>

LowerBy(row, cp) ==
  IF row = <<>> THEN cp
  ELSE IF (cp - row[1]) % row[3] = 0 THEN cp + row[4]
  ELSE cp

\* u is a surrogate of the block that starts at first (U+D800 the leading,
\* U+DC00 the trailing ones).
Surrogate(u, first) == first <= u /\ u < first + 1024

\* The number of code units of the code point that starts at s[i], and of
\* the one that ends at s[i]: two for a surrogate pair.
WidthAt(s, i) ==
  IF i < Len(s) /\ Surrogate(s[i], 55296) /\ Surrogate(s[i + 1], 56320)
    THEN 2 ELSE 1

WidthBefore(s, i) ==
  IF i > 1 /\ Surrogate(s[i], 56320) /\ Surrogate(s[i - 1], 55296)
    THEN 2 ELSE 1

\* The code point whose first code unit is s[i] and which takes w units.
CodePoint(s, i, w) ==
  IF w = 2 THEN 65536 + (s[i] - 55296) * 1024 + (s[i + 1] - 56320)
  ELSE s[i]

\* The code units of a code point.
Encode(cp) ==
  IF cp < 65536 THEN <<cp>>
  ELSE <<55296 + ((cp - 65536) \div 1024), 56320 + ((cp - 65536) % 1024)>>

\* Is the nearest code point that is not case-ignorable, going left from the
\* one that ends at s[i] (right from the one that starts at s[i]), a cased
\* letter?
RECURSIVE CasedBefore(_, _)
CasedBefore(s, i) ==
  IF i < 1 THEN FALSE
  ELSE IF InTable(CaseIgnorable,
                  CodePoint(s, i - WidthBefore(s, i) + 1, WidthBefore(s, i)))
         THEN CasedBefore(s, i - WidthBefore(s, i))
  ELSE InTable(Cased, CodePoint(s, i - WidthBefore(s, i) + 1, WidthBefore(s, i)))

RECURSIVE CasedAfter(_, _)
CasedAfter(s, i) ==
  IF i > Len(s) THEN FALSE
  ELSE IF InTable(CaseIgnorable, CodePoint(s, i, WidthAt(s, i)))
         THEN CasedAfter(s, i + WidthAt(s, i))
  ELSE InTable(Cased, CodePoint(s, i, WidthAt(s, i)))

\* The simple lower-case mapping of a code point.
SimpleLower(cp) ==
  LowerBy(RowOf(SimpleLowercase, cp, 1, Len(SimpleLowercase)), cp)

\* The lower-case form of the code point that starts at s[i].  U+0130 gives
\* "i" and U+0307; U+03A3 gives the final sigma U+03C2 when a cased letter
\* comes before it and none after it, U+03C3 otherwise.
LowerAt(s, i) ==
  IF s[i] = 304 THEN <<105, 775>>
  ELSE IF s[i] = 931
         THEN IF CasedBefore(s, i - 1) /\ ~CasedAfter(s, i + 1)
                THEN <<962>> ELSE <<963>>
  ELSE Encode(SimpleLower(CodePoint(s, i, WidthAt(s, i))))

RECURSIVE LowerFrom(_, _)
LowerFrom(s, i) ==
  IF i > Len(s) THEN <<>>
  ELSE LowerAt(s, i) \o LowerFrom(s, i + WidthAt(s, i))

\* String.prototype.toLowerCase
toLowerCase(s) == LowerFrom(s, 1)

\* s.includes(t): scan the start positions of s from the left for t.
RECURSIVE IncludesFrom(_, _, _)
IncludesFrom(s, t, k) ==
  IF k + Len(t) - 1 > Len(s) THEN FALSE
  ELSE IF SubSeq(s, k, k + Len(t) - 1) = t THEN TRUE
  ELSE IncludesFrom(s, t, k + 1)

includes(s, t) == IncludesFrom(s, t, 1)

\* ------------------------------------------------------------------------
\* Mock estimator
\* ------------------------------------------------------------------------

\* The locality table of getMockCoordinates, in its insertion order (the
\* order Object.entries enumerates).
locationMap ==
  << [key |-> Units(<<"W", "h", "i", "t", "e", "f", "i", "e", "l", "d">>),
      coords |-> <<Degrees(129698), Degrees(777500)>>],
     [key |-> Units(<<"K", "o", "r", "a", "m", "a", "n", "g", "a", "l", "a">>),
      coords |-> <<Degrees(129349), Degrees(776175)>>],
     [key |-> Units(<<"E", "l", "e", "c", "t", "r", "o", "n", "i", "c", " ", "C", "i", "t", "y">>),
      coords |-> <<Degrees(128399), Degrees(776770)>>],
     [key |-> Units(<<"H", "S", "R", " ", "L", "a", "y", "o", "u", "t">>),
      coords |-> <<Degrees(129122), Degrees(776414)>>],
     [key |-> Units(<<"M", "a", "r", "a", "t", "h", "a", "h", "a", "l", "l", "i">>),
      coords |-> <<Degrees(129591), Degrees(776971)>>],
     [key |-> Units(<<"I", "n", "d", "i", "r", "a", "n", "a", "g", "a", "r">>),
      coords |-> <<Degrees(129719), Degrees(776412)>>],
     [key |-> Units(<<"J", "a", "y", "a", "n", "a", "g", "a", "r">>),
      coords |-> <<Degrees(129250), Degrees(775820)>>],
     [key |-> Units(<<"H", "e", "b", "b", "a", "l">>),
      coords |-> <<Degrees(130358), Degrees(775970)>>],
     [key |-> Units(<<"S", "a", "r", "j", "a", "p", "u", "r", " ", "R", "o", "a", "d">>),
      coords |-> <<Degrees(129087), Degrees(776857)>>],
     [key |-> Units(<<"B", "e", "l", "l", "a", "n", "d", "u", "r">>),
      coords |-> <<Degrees(129261), Degrees(776798)>>],
     [key |-> Units(<<"J", "P", " ", "N", "a", "g", "a", "r">>),
      coords |-> <<Degrees(129064), Degrees(775857)>>],
     [key |-> Units(<<"B", "a", "n", "n", "e", "r", "g", "h", "a", "t", "t", "a", " ", "R", "o", "a", "d">>),
      coords |-> <<Degrees(128879), Degrees(775967)>>] >>

\* The fallback list of loadLocations.
defaultLocations ==
  << Units(<<"W", "h", "i", "t", "e", "f", "i", "e", "l", "d">>),
     Units(<<"K", "o", "r", "a", "m", "a", "n", "g", "a", "l", "a">>),
     Units(<<"E", "l", "e", "c", "t", "r", "o", "n", "i", "c", " ", "C", "i", "t", "y">>),
     Units(<<"H", "S", "R", " ", "L", "a", "y", "o", "u", "t">>),
     Units(<<"M", "a", "r", "a", "t", "h", "a", "h", "a", "l", "l", "i">>),
     Units(<<"I", "n", "d", "i", "r", "a", "n", "a", "g", "a", "r">>),
     Units(<<"J", "a", "y", "a", "n", "a", "g", "a", "r">>),
     Units(<<"H", "e", "b", "b", "a", "l">>),
     Units(<<"S", "a", "r", "j", "a", "p", "u", "r", " ", "R", "o", "a", "d">>),
     Units(<<"B", "e", "l", "l", "a", "n", "d", "u", "r">>),
     Units(<<"J", "P", " ", "N", "a", "g", "a", "r">>),
     Units(<<"B", "a", "n", "n", "e", "r", "g", "h", "a", "t", "t", "a", " ", "R", "o", "a", "d">>) >>

\* line 193: does the table key match the (already lower-cased) location?
\* A mutant compares the key without lower-casing it.
LocationMatchesCaseSensitive(key, normalizedLoc) ==
  \E k \in {key}, loc \in {normalizedLoc} :
    includes(k, loc) \/ includes(loc, k)

LocationMatches(key, normalizedLoc) ==
  \E lowerKey \in {toLowerCase(key)}, loc \in {normalizedLoc} :
    includes(lowerKey, loc) \/ includes(loc, lowerKey)

\* The for loop of getMockCoordinates over the entries it has still to
\* visit: the coordinates of the first matching entry, or fallback when the
\* loop runs off the table.
RECURSIVE FirstMatch(_, _, _)
FirstMatch(entries, normalizedLoc, fallback) ==
  IF entries = <<>> THEN fallback
  ELSE IF LocationMatches(Head(entries).key, normalizedLoc)
         THEN Head(entries).coords
  ELSE FirstMatch(Tail(entries), normalizedLoc, fallback)

\* Lines 199-202: centre + (Math.random() - 0.5) * 0.15, for the centre
\* literal written n / 10000.
JitterNearCentre(n, u) ==
  FAdd(Degrees(n), FMul(FSub(u, Half), Decimal(15, 100)))

\* getMockCoordinates(location); uLat and uLng are the two Math.random()
\* values the fallback draws.
getMockCoordinates(location, uLat, uLng) ==
  FirstMatch(locationMap, toLowerCase(location),
             <<JitterNearCentre(129716, uLat), JitterNearCentre(775946, uLng)>>)

\* The comparator of the sort in generateMockComparables.  A mutant swaps
\* its operands.
compareDistanceSwapped(a, b) == FSub(b.distance_km, a.distance_km)

compareDistance(a, b) == FSub(a.distance_km, b.distance_km)

\* Array.prototype.sort with compareDistance: a stable insertion sort (an
\* element moves before the elements the comparator puts after it).
RECURSIVE InsertSorted(_, _)
InsertSorted(sorted, x) ==
  IF sorted = <<>> THEN <<x>>
  ELSE IF Less(Zero, compareDistance(Head(sorted), x)) THEN <<x>> \o sorted
  ELSE <<Head(sorted)>> \o InsertSorted(Tail(sorted), x)

RECURSIVE SortByDistance(_)
SortByDistance(arr) ==
  IF arr = <<>> THEN <<>>
  ELSE InsertSorted(SortByDistance(SubSeq(arr, 1, Len(arr) - 1)), arr[Len(arr)])

\* The names generateMockComparables gives its four entries.
comparableLocations == <<"Near Location", "Nearby Area", "Close By", "Adjacent">>

\* The entry generateMockComparables pushes in iteration i; draw holds the
\* five Math.random() values of the iteration.
MockComparable(coords, bhk, i, draw) ==
  [location       |-> comparableLocations[i],
   bhk            |-> bhk,
   total_sqft     |-> 1000 + ToInt(MathRound(FMul(draw.total_sqft, Integer(1000)))),
   price_per_sqft |-> 5000 + ToInt(MathRound(FMul(draw.price_per_sqft, Integer(3000)))),
   distance_km    |->
     FDiv(MathRound(FMul(FAdd(Half, FMul(draw.distance_km, Integer(2))),
                         Integer(10))), 10),
   latitude       |-> FAdd(coords[1], FMul(FSub(draw.latitude, Half), Decimal(2, 100))),
   longitude      |-> FAdd(coords[2], FMul(FSub(draw.longitude, Half), Decimal(2, 100)))]

\* generateMockComparables(coords, bhk): the loop runs for i < 4, then the
\* array is sorted; draws[i] holds the random values of iteration i.
generateMockComparables(coords, bhk, draws) ==
  SortByDistance(<<MockComparable(coords, bhk, 1, draws[1]),
                   MockComparable(coords, bhk, 2, draws[2]),
                   MockComparable(coords, bhk, 3, draws[3]),
                   MockComparable(coords, bhk, 4, draws[4])>>)

basePrice == 6500

\* bhkMultiplier = 1 + (bhk - 2) * 0.15
bhkMultiplier(formData) ==
  FAdd(Integer(1), FMul(Integer(formData.bhk - 2), Decimal(15, 100)))

\* sizeMultiplier: 1.1, 0.9 or 1
sizeMultiplier(formData) ==
  IF Less(formData.total_sqft, Integer(1000)) THEN Decimal(11, 10)
  ELSE IF Less(Integer(2000), formData.total_sqft) THEN Decimal(9, 10)
  ELSE Integer(1)

\* pricePerSqft = basePrice * bhkMultiplier * sizeMultiplier
\*                  + (Math.random() - 0.5) * 1000; u is the Math.random()
\* value of line 156.
pricePerSqft(formData, u) ==
  FAdd(FMul(FMul(Integer(basePrice), bhkMultiplier(formData)), sizeMultiplier(formData)),
       FMul(FSub(u, Half), Integer(1000)))

\* Math.round(x * 100) / 100
RoundToCents(x) == FDiv(MathRound(FMul(x, Integer(100))), 100)

\* predicted_price_per_sqft for the unrounded price p
predictedPricePerSqft(p) == RoundToCents(p)

\* confidence_interval.lower.  A mutant takes the upper factor.
confidenceLowerSwapped(p) == RoundToCents(FMul(p, Decimal(115, 100)))

confidenceLower(p) == RoundToCents(FMul(p, Decimal(85, 100)))

\* confidence_interval.upper
confidenceUpper(p) == RoundToCents(FMul(p, Decimal(115, 100)))

\* totalPrice = pricePerSqft * formData.total_sqft
totalPrice(p, sqft) == FMul(p, sqft)

\* total_estimated_price
totalEstimatedPrice(p, sqft) == RoundToCents(totalPrice(p, sqft))

\* total_estimated_price_formatted: the rupee sign, the lakhs with two
\* decimals, " Lakhs".
totalEstimatedPriceFormatted(p, sqft) ==
  <<"Rs.", ToFixed2(FDiv(totalPrice(p, sqft), 100000)), " Lakhs">>

\* generateMockPrediction(formData); rnd holds the Math.random() values the
\* call draws: rnd.coords (getMockCoordinates), rnd.price (line 156) and
\* rnd.comparables (generateMockComparables).
\* The object generateMockPrediction returns (lines 159-171) for the
\* coordinates mockCoords and the unrounded price p.
mockResultOf(formData, mockCoords, p, draws) ==
  [success |-> TRUE,
   location |-> formData.location,
   coordinates |-> [latitude |-> mockCoords[1], longitude |-> mockCoords[2]],
   predicted_price_per_sqft |-> predictedPricePerSqft(p),
   total_estimated_price |-> totalEstimatedPrice(p, formData.total_sqft),
   total_estimated_price_formatted |->
     totalEstimatedPriceFormatted(p, formData.total_sqft),
   confidence_interval |-> [lower |-> confidenceLower(p),
                            upper |-> confidenceUpper(p)],
   nearby_comparables |-> generateMockComparables(mockCoords, formData.bhk, draws)]

generateMockPrediction(formData, rnd) ==
  mockResultOf(formData,
               getMockCoordinates(formData.location, rnd.coords[1], rnd.coords[2]),
               pricePerSqft(formData, rnd.price),
               rnd.comparables)

\* ------------------------------------------------------------------------
\* State
\* ------------------------------------------------------------------------

VARIABLES
  map,              \* the Leaflet map widget: its layers, view and open popup
  markers,          \* let markers = []: the comparable markers (line 19)
  predictionMarker, \* let predictionMarker = null (line 20): <<>> or <<marker>>
  resultsSection,   \* #results: its hidden class and its four text fields
  comparablesList,  \* the children of #comparables-list
  loadingOverlay,   \* #loading-overlay: "markup", "visible" or "hidden"
  lastHandled,      \* history: the call whose handler finished last (0: none)
  calls,            \* the predictPrice calls started so far, in order
  datalist,         \* the option values appended to #locations-list
  locationsLoad,    \* the loadLocations call: its position and outcome
  estimator         \* a mock-estimator run on its own: request and result

vars == <<map, markers, predictionMarker, resultsSection, comparablesList,
          loadingOverlay, lastHandled, calls, datalist, locationsLoad, estimator>>

\* What the page's markup puts into an element before any code writes it.
Markup == <<>>

\* ------------------------------------------------------------------------
\* Map renderer
\* ------------------------------------------------------------------------

\* A text is the sequence of its parts (the literal pieces of a template
\* and the values interpolated between them); the empty string is <<>>.

\* Number.prototype.toLocaleString(): the number formatted for the host's
\* locale (with at most three decimals); the text depends on the host, and
\* is kept as the formatting applied to the number.
toLocaleString(x) == [toLocaleString |-> x]

\* if (data.f): the field is there and is no empty string.
Truthy(data, f) == f \in DOMAIN data /\ data[f] # <<>>

\* createPopupContent(data): the parts of the popup, in order; a part is
\* present when the field of data is truthy.
createPopupContent(data) ==
  <<<<"popup-title", data.title>>>>
    \o (IF Truthy(data, "details") THEN <<<<"popup-details", data.details>>>> ELSE <<>>)
    \o (IF Truthy(data, "price") THEN <<<<"popup-price", data.price>>>> ELSE <<>>)
    \o (IF Truthy(data, "pricePerSqft")
          THEN <<<<"popup-details", data.pricePerSqft>>>> ELSE <<>>)
    \o (IF Truthy(data, "distance")
          THEN <<<<"popup-details muted", data.distance>>>> ELSE <<>>)

\* L.marker(latlng, {icon}).bindPopup(popup)
Marker(latlng, icon, popup) == [latlng |-> latlng, icon |-> icon, popup |-> popup]

\* The marker addCenterMarker places.
CenterMarker ==
  Marker(BANGALORE_CENTER, "pulsing-marker",
         createPopupContent(
           [title |-> <<"Bangalore City Center">>,
            details |-> <<"Enter property details to get a price prediction">>]))

\* The prediction marker updateMap places for result.
PredictionMarkerOf(result) ==
  Marker(<<result.coordinates.latitude, result.coordinates.longitude>>,
         "prediction-marker-icon",
         createPopupContent(
           [title |-> result.location,
            price |-> result.total_estimated_price_formatted,
            pricePerSqft |->
              <<"Rs.", toLocaleString(result.predicted_price_per_sqft), "/sq.ft">>]))

\* The marker updateMap places for one comparable.
ComparableMarkerOf(comp) ==
  Marker(<<comp.latitude, comp.longitude>>, "comparable-marker-icon",
         createPopupContent(
           [title |-> comp.location,
            details |-> <<comp.bhk, " BHK | ", toLocaleString(comp.total_sqft), " sq.ft">>,
            pricePerSqft |-> <<"Rs.", toLocaleString(comp.price_per_sqft), "/sq.ft">>,
            distance |-> <<comp.distance_km, " km away">>]))

\* seq without its first element equal to x (seq itself when there is none).
RECURSIVE RemoveOne(_, _)
RemoveOne(seq, x) ==
  IF seq = <<>> THEN <<>>
  ELSE IF Head(seq) = x THEN Tail(seq)
  ELSE <<Head(seq)>> \o RemoveOne(Tail(seq), x)

\* marker.addTo(m)
addTo(m, marker) == [m EXCEPT !.layers = Append(@, marker)]

\* m.removeLayer(marker): the marker leaves the map, and its popup closes.
removeLayer(m, marker) ==
  [m EXCEPT !.layers = RemoveOne(@, marker),
            !.popup = IF @ = <<marker>> THEN <<>> ELSE @]

\* marker.openPopup(): the map shows one popup at a time.
openPopup(m, marker) == [m EXCEPT !.popup = <<marker>>]

RECURSIVE RemoveAll(_, _)
RemoveAll(m, ms) ==
  IF ms = <<>> THEN m ELSE RemoveAll(removeLayer(m, Head(ms)), Tail(ms))

\* The module state the map renderer works on, as one record.
MapState(m, ms, pm) == [map |-> m, markers |-> ms, predictionMarker |-> pm]

\* clearMarkers().  A mutant forgets the prediction marker.
clearMarkersKeepingPrediction(s) ==
  MapState(RemoveAll(s.map, s.markers), <<>>, <<>>)

clearMarkers(s) ==
  MapState(RemoveAll(RemoveAll(s.map, s.markers), s.predictionMarker), <<>>, <<>>)

\* The fields of a comparable that updateMap reads to place its marker;
\* L.marker throws on a latitude or longitude that is not a number.
HasLatLng(comp) == {"latitude", "longitude"} \subseteq DOMAIN comp

\* The forEach of lines 309-336 from comparable i on: one marker per
\* comparable, added to the map and pushed on markers; it throws at the
\* first comparable without coordinates.
RECURSIVE AddComparableMarkers(_, _, _)
AddComparableMarkers(s, comps, i) ==
  IF i > Len(comps) THEN [state |-> s, threw |-> FALSE]
  ELSE IF ~HasLatLng(comps[i]) THEN [state |-> s, threw |-> TRUE]
  ELSE AddComparableMarkers(
         MapState(addTo(s.map, ComparableMarkerOf(comps[i])),
                  Append(s.markers, ComparableMarkerOf(comps[i])),
                  s.predictionMarker),
         comps, i + 1)

\* Lines 339-345: fit the view to all markers, or centre on the prediction.
FitView(s, coords) ==
  [s EXCEPT !.map.view =
     IF Len(s.markers) > 0
       THEN [kind |-> "fitBounds",
             of |-> {s.predictionMarker[1].latlng}
                      \cup {s.markers[i].latlng : i \in 1..Len(s.markers)}]
       ELSE [kind |-> "setView", of |-> {coords}, zoom |-> 14]]

\* updateMap(result) on the state s: the state it leaves, and whether it
\* threw (at line 272, or while placing a comparable marker).
updateMap(s, result) ==
  LET cleared == clearMarkers(s)
  IN  IF "coordinates" \notin DOMAIN result
        THEN [state |-> cleared, threw |-> TRUE]
        ELSE
          LET pm == PredictionMarkerOf(result)
              placed == MapState(openPopup(addTo(cleared.map, pm), pm),
                                 cleared.markers, <<pm>>)
              withComps ==
                IF "nearby_comparables" \in DOMAIN result
                  THEN AddComparableMarkers(placed, result.nearby_comparables, 1)
                  ELSE [state |-> placed, threw |-> FALSE]
          IN  IF withComps.threw THEN withComps
              ELSE [state |-> FitView(withComps.state,
                                      <<result.coordinates.latitude,
                                        result.coordinates.longitude>>),
                    threw |-> FALSE]

\* The forEach of focusComparable from marker i on: open the popup of every
\* marker whose latitude and longitude both differ from the comparable's by
\* less than 0.0001, the differences being computed in doubles.
\* The literal 0.0001 of lines 386-387.
FocusTolerance == Decimal(1, 10000)

RECURSIVE OpenMatching(_, _, _, _)
OpenMatching(m, ms, comp, i) ==
  IF i > Len(ms) THEN m
  ELSE OpenMatching(
         IF /\ Less(Abs(FSub(ms[i].latlng[1], comp.latitude)), FocusTolerance)
            /\ Less(Abs(FSub(ms[i].latlng[2], comp.longitude)), FocusTolerance)
           THEN openPopup(m, ms[i]) ELSE m,
         ms, comp, i + 1)

\* focusComparable(comp)
focusComparable(m, ms, comp) ==
  OpenMatching([m EXCEPT !.view = [kind |-> "setView",
                                   of |-> {<<comp.latitude, comp.longitude>>},
                                   zoom |-> 15]],
               ms, comp, 1)

\* ------------------------------------------------------------------------
\* Inputs
\* ------------------------------------------------------------------------

\* The requests the form submits in the page specification.
FormInputs ==
  { [location |-> Units(<<"w", "h", "i", "t", "e", "f", "i", "e", "l", "d">>),
     total_sqft |-> Integer(1500), bhk |-> 3, bath |-> 2, balcony |-> 1,
     area_type |-> "Super built-up"],
    [location |-> Units(<<"M", "y", "s", "o", "r", "e">>),
     total_sqft |-> Decimal(9005, 10), bhk |-> 2, bath |-> 1, balcony |-> 0,
     area_type |-> "Plot" ] }

\* The five Math.random() values of one generateMockComparables iteration,
\* in the order the code draws them, each given as k of k / RandDen.
ComparableDraw(sqft, price, distance, lat, lng) ==
  [total_sqft |-> Random(sqft), price_per_sqft |-> Random(price),
   distance_km |-> Random(distance), latitude |-> Random(lat),
   longitude |-> Random(lng)]

\* The Math.random() values a mock prediction draws in the page
\* specification.
UiDraws ==
  { [coords |-> <<Random(250000), Random(750000)>>,
     price |-> Random(123455),
     comparables |->
       <<ComparableDraw(100000, 200000, 600000, 300000, 700000),
         ComparableDraw(500000, 999999, 100000, 800000, 200000),
         ComparableDraw(999999, 0, 600000, 0, 999999),
         ComparableDraw(0, 500000, 900000, 500000, 500000)>>] }

\* The i-th comparable of a backend result; consecutive comparables lie
\* 0.0001 degree of latitude apart, on one longitude.
BackendComparable(i) ==
  [location |-> "Hebbal Kempapura", bhk |-> 2, total_sqft |-> 1100 + 50 * i,
   price_per_sqft |-> 7000 + 100 * i, distance_km |-> Decimal(4 * i, 10),
   latitude |-> Degrees(130360 + i), longitude |-> Degrees(775968)]

\* The first n comparables of a backend result.
RECURSIVE BackendComparables(_)
BackendComparables(n) ==
  IF n = 0 THEN <<>> ELSE Append(BackendComparables(n - 1), BackendComparable(n))

\* A backend PredictionResult with n comparables (§6 of the interface).
BackendResult(n) ==
  [success |-> TRUE,
   location |-> Units(<<"H", "e", "b", "b", "a", "l">>),
   coordinates |-> [latitude |-> Degrees(130358), longitude |-> Degrees(775970)],
   predicted_price_per_sqft |-> Decimal(812345 + n, 100),
   total_estimated_price |-> Decimal(974814000, 100),
   total_estimated_price_formatted |-> <<"Rs.", ToFixed2(Decimal(9748 + n, 100)), " Lakhs">>,
   confidence_interval |-> [lower |-> Decimal(690493, 100),
                            upper |-> Decimal(934197, 100)],
   nearby_comparables |-> BackendComparables(n)]

\* r without the field f.
Without(r, f) == [g \in DOMAIN r \ {f} |-> r[g]]

\* The bodies a 2xx /api/predict response parses to: results in the
\* PredictionResult shape, and bodies that lack a part of it.
ParsedBodies ==
  { BackendResult(0), BackendResult(MaxBackendComparables) }
    \cup { Without(BackendResult(0), "nearby_comparables"),
           Without(BackendResult(1), "predicted_price_per_sqft"),
           Without(BackendResult(1), "coordinates"),
           [BackendResult(1) EXCEPT
              !.nearby_comparables =
                 <<Without(Without(BackendComparable(1), "latitude"), "longitude")>>] }

\* What response.json() settles to on a 2xx response: <<>> is a body that
\* cannot be parsed (the promise rejects).
ResponseBodies == {<<>>} \cup { <<b>> : b \in ParsedBodies }

\* generateMockPrediction(formData) on the draws rnd, for the requests and
\* draws of the page specification (evaluated once).
MockPredictions ==
  { [formData |-> formData, rnd |-> rnd,
     result |-> generateMockPrediction(formData, rnd)] :
      formData \in FormInputs, rnd \in UiDraws }

mockPrediction(formData, rnd) ==
  (CHOOSE e \in MockPredictions : e.formData = formData /\ e.rnd = rnd).result


\* ------------------------------------------------------------------------
\* Result renderer
\* ------------------------------------------------------------------------

\* The fields of a comparable that displayResults formats with
\* toLocaleString(); reading one that is missing throws a TypeError.
HasListFields(comp) == {"total_sqft", "price_per_sqft"} \subseteq DOMAIN comp

\* The element displayResults builds for one comparable (lines 245-257).
ComparableItem(comp) ==
  [location |-> comp.location,
   details  |-> <<comp.bhk, " BHK | ", toLocaleString(comp.total_sqft), " sq.ft | ",
                  comp.distance_km, " km">>,
   price    |-> <<"Rs.", toLocaleString(comp.price_per_sqft)>>,
   onclick  |-> comp]

\* The placeholder of line 260.
NoComparablesFound == <<[placeholder |-> <<"No comparable properties found">>]>>

\* The forEach of lines 244-258 from comparable i on; it throws at the
\* first comparable it cannot format.
RECURSIVE AppendItems(_, _, _)
AppendItems(list, comps, i) ==
  IF i > Len(comps) THEN [list |-> list, threw |-> FALSE]
  ELSE IF ~HasListFields(comps[i]) THEN [list |-> list, threw |-> TRUE]
  ELSE AppendItems(Append(list, ComparableItem(comps[i])), comps, i + 1)

\* Lines 240-261 on the children of #comparables-list.  A mutant does not
\* empty the container first (line 241).
renderComparablesKeepingOld(list, result) ==
  IF "nearby_comparables" \in DOMAIN result /\ Len(result.nearby_comparables) > 0
    THEN AppendItems(list, result.nearby_comparables, 1)
    ELSE [list |-> NoComparablesFound, threw |-> FALSE]

renderComparables(list, result) ==
  IF "nearby_comparables" \in DOMAIN result /\ Len(result.nearby_comparables) > 0
    THEN AppendItems(<<>>, result.nearby_comparables, 1)
    ELSE [list |-> NoComparablesFound, threw |-> FALSE]

\* The page elements the result renderer writes, as one record.
Dom(section, list) == [resultsSection |-> section, comparablesList |-> list]

\* displayResults(result) on the elements d: what it leaves, and whether it
\* threw.  A field the result lacks reads as undefined, and calling
\* toLocaleString() on it (or reading .lower of it) throws.
displayResults(d, result) ==
  LET s1 == [d.resultsSection EXCEPT
               !.hidden = "removed",
               !.totalPrice = result.total_estimated_price_formatted]
      s2 == [s1 EXCEPT
               !.pricePerSqft =
                  <<"Rs.", toLocaleString(result.predicted_price_per_sqft), " per sq.ft">>]
      s3 == [s2 EXCEPT
               !.ciLower = <<"Rs.", toLocaleString(result.confidence_interval.lower)>>,
               !.ciUpper = <<"Rs.", toLocaleString(result.confidence_interval.upper)>>]
      items == renderComparables(d.comparablesList, result)
  IN  IF "predicted_price_per_sqft" \notin DOMAIN result
        THEN [dom |-> Dom(s1, d.comparablesList), threw |-> TRUE]
      ELSE IF "confidence_interval" \notin DOMAIN result
        THEN [dom |-> Dom(s2, d.comparablesList), threw |-> TRUE]
      ELSE [dom |-> Dom(s3, items.list), threw |-> items.threw]

\* ------------------------------------------------------------------------
\* Prediction client
\* ------------------------------------------------------------------------

\* showLoading(show): the overlay after classList.remove / add of 'hidden'.
\* A mutant hides the overlay whatever the argument.
showLoadingAlwaysHidden(show) == "hidden"

showLoadingAlwaysVisible(show) == "visible"

showLoading(show) == IF show THEN "visible" ELSE "hidden"

\* Everything the renderers write, as one record.
Ui(d, s) == [dom |-> d, mapState |-> s]

\* Lines 131-132: displayResults(result); updateMap(result).  rendered is
\* <<result>> when both returned, <<>> when one of them threw.
renderResult(ui, result) ==
  LET shown == displayResults(ui.dom, result)
      mapped == updateMap(ui.mapState, result)
  IN  IF shown.threw
        THEN [ui |-> Ui(shown.dom, ui.mapState), rendered |-> <<>>]
      ELSE IF mapped.threw
        THEN [ui |-> Ui(shown.dom, mapped.state), rendered |-> <<>>]
      ELSE [ui |-> Ui(shown.dom, mapped.state), rendered |-> <<result>>]

\* The catch block, lines 135-141: render the mock prediction.  A mutant
\* leaves out updateMap(mockResult).
\* What predictPrice leaves behind: r is the outcome of its last
\* renderResult, mock is <<>> or holds the mock prediction it made.
Outcome(r, mock) == [ui |-> r.ui, rendered |-> r.rendered, mock |-> mock]

\* mockResult is what generateMockPrediction(formData) returns at line 139.
catchBlockWithoutMap(ui, mockResult) ==
  [ui |-> Ui(displayResults(ui.dom, mockResult).dom, ui.mapState),
   rendered |-> <<>>, mock |-> <<mockResult>>]

catchBlock(ui, mockResult) ==
  Outcome(renderResult(ui, mockResult), <<mockResult>>)

\* Lines 130-141 once response.json() has settled on a 2xx response: body
\* is <<>> when the body could not be parsed, <<result>> otherwise.  A
\* mutant runs the catch block after a rendered backend result as well.
afterBodyAlwaysMock(ui, body, mockResult) ==
  catchBlock(IF body = <<>> THEN ui ELSE renderResult(ui, body[1]).ui, mockResult)

afterBody(ui, body, mockResult) ==
  IF body = <<>> THEN catchBlock(ui, mockResult)
  ELSE IF renderResult(ui, body[1]).rendered = <<>>
    THEN catchBlock(renderResult(ui, body[1]).ui, mockResult)
  ELSE Outcome(renderResult(ui, body[1]), <<>>)

\* ------------------------------------------------------------------------
\* The page: initial state
\* ------------------------------------------------------------------------

DEFAULT_ZOOM == 11

\* initMap() and addCenterMarker(): the map with its centre marker.
initMap ==
  MapState([layers |-> <<CenterMarker>>,
            view |-> [kind |-> "setView", of |-> {BANGALORE_CENTER},
                      zoom |-> DEFAULT_ZOOM],
            popup |-> <<>>],
           <<>>, <<CenterMarker>>)

\* The state once the DOMContentLoaded handler has returned: the map is
\* initialised, loadLocations() is suspended at its fetch, the submit
\* handler is registered.
InitPage ==
  /\ map = initMap.map
  /\ markers = initMap.markers
  /\ predictionMarker = initMap.predictionMarker
  /\ resultsSection = [hidden |-> "markup", totalPrice |-> Markup,
                       pricePerSqft |-> Markup, ciLower |-> Markup,
                       ciUpper |-> Markup]
  /\ comparablesList = Markup
  /\ loadingOverlay = "markup"
  /\ lastHandled = 0
  /\ calls = <<>>
  /\ datalist = <<>>
  /\ locationsLoad = [pc |-> "fetch", response |-> "none", body |-> <<>>]

Init == InitPage /\ estimator = <<>>

\* ------------------------------------------------------------------------
\* The page: prediction actions
\* ------------------------------------------------------------------------

CurrentUi ==
  Ui(Dom(resultsSection, comparablesList), MapState(map, markers, predictionMarker))

\* The calls that have started and not finished.
Pending == {c \in 1..Len(calls) : calls[c].pc # "done"}

\* The calls that have finished.
Done == {c \in 1..Len(calls) : calls[c].pc = "done"}

\* The end of a predictPrice call c: the renderers' writes, then the finally
\* block, showLoading(false).
Finish(c, response, body, out) ==
  /\ resultsSection' = out.ui.dom.resultsSection
  /\ comparablesList' = out.ui.dom.comparablesList
  /\ map' = out.ui.mapState.map
  /\ markers' = out.ui.mapState.markers
  /\ predictionMarker' = out.ui.mapState.predictionMarker
  /\ calls' = [calls EXCEPT ![c] = [@ EXCEPT !.pc = "done",
                                             !.response = response,
                                             !.body = body,
                                             !.mock = out.mock,
                                             !.shown = out.rendered]]
  /\ loadingOverlay' = showLoading(FALSE)
  /\ lastHandled' = c
  /\ UNCHANGED <<datalist, locationsLoad, estimator>>

\* handleFormSubmit: predictPrice(formData) runs to its first await:
\* showLoading(true), then the fetch is issued.
handleFormSubmit(formData) ==
  /\ Len(calls) < MaxCalls
  /\ calls' = Append(calls, [formData |-> formData, pc |-> "fetch",
                             response |-> "none", body |-> <<>>,
                             mock |-> <<>>, shown |-> <<>>,
                             doneAtStart |-> Cardinality(Done)])
  /\ loadingOverlay' = showLoading(TRUE)
  /\ UNCHANGED <<lastHandled, map, markers, predictionMarker, resultsSection, comparablesList,
                 datalist, locationsLoad, estimator>>

\* The fetch of call c rejects (network error): catch, finally.
FetchRejects(c) ==
  /\ calls[c].pc = "fetch"
  /\ \E rnd \in UiDraws :
       Finish(c, "network error", <<>>,
              catchBlock(CurrentUi, mockPrediction(calls[c].formData, rnd)))

\* The fetch of call c resolves to a response; the call goes on to await
\* response.json(), at line 126 (not ok) or line 130 (ok).
FetchResolves(c, ok) ==
  /\ calls[c].pc = "fetch"
  /\ calls' = [calls EXCEPT ![c] = [@ EXCEPT
                 !.pc = IF ok THEN "json" ELSE "errorJson",
                 !.response = IF ok THEN "ok" ELSE "not ok"]]
  /\ UNCHANGED <<map, markers, predictionMarker, resultsSection, comparablesList,
                 loadingOverlay, lastHandled, datalist, locationsLoad, estimator>>

\* response.json() of a non-2xx response settles: it rejects, or it
\* resolves and line 127 throws; either way the catch block runs.
ErrorBodySettles(c) ==
  /\ calls[c].pc = "errorJson"
  /\ \E rnd \in UiDraws :
       Finish(c, "not ok", <<>>, catchBlock(CurrentUi, mockPrediction(calls[c].formData, rnd)))

\* response.json() of a 2xx response settles to body.
BodySettles(c, body) ==
  /\ calls[c].pc = "json"
  /\ \E rnd \in UiDraws :
       Finish(c, "ok", body, afterBody(CurrentUi, body, mockPrediction(calls[c].formData, rnd)))

\* A click on the i-th entry of the comparables list: focusComparable(comp).
ClickComparable(i) ==
  /\ "onclick" \in DOMAIN comparablesList[i]
  /\ map' = focusComparable(map, markers, comparablesList[i].onclick)
  /\ UNCHANGED <<markers, predictionMarker, resultsSection, comparablesList,
                 loadingOverlay, lastHandled, calls, datalist, locationsLoad,
                 estimator>>

Next ==
  \/ \E formData \in FormInputs : handleFormSubmit(formData)
  \/ \E c \in 1..Len(calls) : FetchRejects(c)
  \/ \E c \in 1..Len(calls), ok \in BOOLEAN : FetchResolves(c, ok)
  \/ \E c \in 1..Len(calls) : ErrorBodySettles(c)
  \/ \E c \in 1..Len(calls), body \in ResponseBodies : BodySettles(c, body)
  \/ \E i \in 1..Len(comparablesList) : ClickComparable(i)

Spec == Init /\ [][Next]_vars

\* ------------------------------------------------------------------------
\* The page: location suggestions
\* ------------------------------------------------------------------------

\* An entry of a /api/locations array: <<>> is a JSON null, <<o>> the
\* object o (one of them has no name).
LocationItems ==
  { <<>>,
    <<[name |-> Units(<<"Y", "e", "l", "a", "h", "a", "n", "k", "a">>)]>>,
    <<[name |-> Units(<<"D", "o", "m", "l", "u", "r">>)]>>,
    <<[name |-> Units(<<"W", "h", "i", "t", "e", "f", "i", "e", "l", "d">>)]>>,
    <<[count |-> 12]>> }

\* What response.json() settles to on a 2xx /api/locations response: <<>>
\* is a body that cannot be parsed; a parsed body is an array of at most
\* MaxLocations entries, or a JSON value that is no array.
LocationBodies ==
  {<<>>, <<[isArray |-> FALSE, items |-> <<>>]>>}
    \cup { <<[isArray |-> TRUE, items |-> items]>> :
             items \in UNION { [1..n -> LocationItems] : n \in 0..MaxLocations } }

\* option.value = loc.name: the value an option gets from the object loc; a
\* missing name reads as undefined, which the assignment turns into the
\* string "undefined".
OptionValue(loc) ==
  IF "name" \in DOMAIN loc THEN loc.name
  ELSE Units(<<"u", "n", "d", "e", "f", "i", "n", "e", "d">>)

\* The forEach of lines 84-88 from entry i on: one option per entry; reading
\* .name of a null entry throws a TypeError.
RECURSIVE AppendOptions(_, _, _)
AppendOptions(list, items, i) ==
  IF i > Len(items) THEN [datalist |-> list, threw |-> FALSE]
  ELSE IF items[i] = <<>> THEN [datalist |-> list, threw |-> TRUE]
  ELSE AppendOptions(Append(list, OptionValue(items[i][1])), items, i + 1)

\* Lines 81-90 on a parsed body: calling forEach of a value that is no
\* array throws a TypeError.
appendBackendLocations(list, parsed) ==
  IF parsed.isArray THEN AppendOptions(list, parsed.items, 1)
  ELSE [datalist |-> list, threw |-> TRUE]

\* The catch block of loadLocations, lines 91-106: one option per default
\* location, appended to what the list holds.
appendDefaultLocations(list) == list \o defaultLocations

\* The fetch of loadLocations rejects (network error): catch.
LocationsFetchRejects ==
  /\ locationsLoad.pc = "fetch"
  /\ datalist' = appendDefaultLocations(datalist)
  /\ locationsLoad' = [locationsLoad EXCEPT !.pc = "done",
                                            !.response = "network error"]
  /\ UNCHANGED <<map, markers, predictionMarker, resultsSection, comparablesList,
                 loadingOverlay, lastHandled, calls, estimator>>

\* The fetch resolves: a response that is not ok throws at line 79 and the
\* catch block runs; otherwise the call awaits response.json().
LocationsFetchResolves(ok) ==
  /\ locationsLoad.pc = "fetch"
  /\ IF ok
       THEN /\ locationsLoad' = [locationsLoad EXCEPT !.pc = "json",
                                                      !.response = "ok"]
            /\ datalist' = datalist
       ELSE /\ locationsLoad' = [locationsLoad EXCEPT !.pc = "done",
                                                      !.response = "not ok"]
            /\ datalist' = appendDefaultLocations(datalist)
  /\ UNCHANGED <<map, markers, predictionMarker, resultsSection, comparablesList,
                 loadingOverlay, lastHandled, calls, estimator>>

\* response.json() settles to body: the options are appended, and the catch
\* block runs when parsing or appending threw.
LocationsBodySettles(body) ==
  /\ locationsLoad.pc = "json"
  /\ locationsLoad' = [locationsLoad EXCEPT !.pc = "done", !.body = body]
  /\ datalist' =
       IF body = <<>> THEN appendDefaultLocations(datalist)
       ELSE LET appended == appendBackendLocations(datalist, body[1])
            IN  IF appended.threw THEN appendDefaultLocations(appended.datalist)
                ELSE appended.datalist
  /\ UNCHANGED <<map, markers, predictionMarker, resultsSection, comparablesList,
                 loadingOverlay, lastHandled, calls, estimator>>

\* loadLocations shares no state with the prediction actions (it writes
\* only the datalist), so it is explored on its own.
LocationsNext ==
  \/ LocationsFetchRejects
  \/ \E ok \in BOOLEAN : LocationsFetchResolves(ok)
  \/ \E body \in LocationBodies : LocationsBodySettles(body)

LocationsSpec == Init /\ [][LocationsNext]_vars

\* ------------------------------------------------------------------------
\* The mock estimator on its own
\* ------------------------------------------------------------------------

\* The location strings of the estimator's requests.  Beside ASCII ones:
\* KELVIN SIGN (8490) for the "K" of Koramangala, LATIN CAPITAL LETTER I WITH
\* DOT ABOVE (304), LATIN CAPITAL LETTER E WITH ACUTE (201), the Greek
\* capitals omicron, delta, omicron, sigma, the surrogate pair of DESERET
\* CAPITAL LETTER LONG I before " Hebbal", and a capital sigma after LATIN
\* LETTER PHARYNGEAL VOICED FRICATIVE (661, not cased) and after "A" and
\* ARABIC PEPET (2199, case-ignorable).
LocationInputs ==
  { <<>>,
    Units(<<"w", "h", "i", "t", "e", "f", "i", "e", "l", "d">>),
    Units(<<"W", "h", "i", "t", "e", "f", "i", "e", "l", "d", " ", "M", "a", "i", "n">>),
    Units(<<"K", "O", "R", "A", "M", "A", "N", "G", "A", "L", "A">>),
    <<8490>> \o Units(<<"o", "r", "a", "m", "a", "n", "g", "a", "l", "a">>),
    Units(<<"J", "A", "Y", "A", "N", "A", "G", "A", "R", " ">>) \o <<304>>,
    <<304>>,
    <<201>> \o Units(<<"c", "o", "l", "e">>),
    <<927, 916, 927, 931>>,
    <<661, 931>>,
    <<65, 2199, 931>>,
    <<55297, 56320>> \o Units(<<" ", "H", "e", "b", "b", "a", "l">>),
    Units(<<"r", "o", "a", "d">>),
    Units(<<"n", "a", "g", "a", "r">>),
    Units(<<"M", "y", "s", "o", "r", "e">>),
    Units(<<"H", "S", "R">>),
    Units(<<"J">>),
    Units(<<"j", "p", " ", "n", "a", "g", "a", "r">>),
    Units(<<"a">>),
    Units(<<"H", "e", "b", "b", "a", "l", " ", "K", "e", "m", "p", "a", "p", "u", "r", "a">>) }

\* total_sqft values on both sides of the sizeMultiplier thresholds.
SqftInputs ==
  {Decimal(9995, 10), Integer(1000), Integer(1500), Integer(2000), Integer(2001)}

\* A valid request: total_sqft > 0 (parseFloat gives a double) and an
\* integer bhk >= 0.
Request(location, sqft, bhk) ==
  [location |-> location, total_sqft |-> sqft, bhk |-> bhk, bath |-> 2,
   balcony |-> 1, area_type |-> "Super built-up"]

\* Math.random() values of line 156: both ends of [0, 1), the middle, and
\* values whose price has a 5 at the digit after the rounded one.
PriceDraws ==
  { Random(0), Random(5), Random(123455), Random(250005), Random(376545),
    Random(500000), Random(999999), AlmostOne }

\* Math.random() values of lines 200-201, for the latitude and the longitude.
CoordDraws ==
  { <<Random(0), Random(999999)>>, <<AlmostOne, Random(500000)>>,
    <<Random(250000), Random(0)>>, <<Random(750000), AlmostOne>> }

\* The draws of one generateMockComparables iteration.
ComparableDraws ==
  { ComparableDraw(0, 999999, 0, 0, 999999),
    ComparableDraw(499500, 166500, 475000, 500000, 500000),
    [ComparableDraw(999999, 0, 999999, 999999, 0) EXCEPT !.distance_km = AlmostOne] }

\* The runs of the estimator: every location with every pair of coordinate
\* draws; every total_sqft, bhk and price draw; every choice of the
\* comparables' draws.
EstimatorRuns ==
  LET someComparables == <<ComparableDraw(100000, 0, 700000, 0, 0),
                            ComparableDraw(200000, 0, 500000, 0, 0),
                            ComparableDraw(300000, 0, 300000, 0, 0),
                            ComparableDraw(400000, 0, 100000, 0, 0)>>
      someCoords == <<Random(250000), Random(750000)>>
      mysore == Units(<<"M", "y", "s", "o", "r", "e">>)
  IN  { [formData |-> Request(location, Integer(1500), 2),
         rnd |-> [coords |-> coords, price |-> Random(500000),
                  comparables |-> someComparables]] :
          location \in LocationInputs, coords \in CoordDraws }
        \cup
      { [formData |-> Request(mysore, sqft, bhk),
         rnd |-> [coords |-> someCoords, price |-> price,
                  comparables |-> someComparables]] :
          sqft \in SqftInputs, bhk \in 0..MaxBhk, price \in PriceDraws }
        \cup
      { [formData |-> Request(mysore, Integer(1500), bhk),
         rnd |-> [coords |-> someCoords, price |-> Random(500000),
                  comparables |-> <<c1, c2, c3, c4>>]] :
          bhk \in {1, MaxBhk},
          c1 \in ComparableDraws, c2 \in ComparableDraws,
          c3 \in ComparableDraws, c4 \in ComparableDraws }

EstimatorInit ==
  /\ InitPage
  /\ estimator \in { <<[formData |-> run.formData, rnd |-> run.rnd, result |-> <<>>]>> :
                       run \in EstimatorRuns }

\* generateMockPrediction is applied to the request.
Estimate ==
  /\ estimator[1].result = <<>>
  /\ estimator' = <<[estimator[1] EXCEPT
                       !.result = <<generateMockPrediction(estimator[1].formData,
                                                           estimator[1].rnd)>>]>>
  /\ UNCHANGED <<map, markers, predictionMarker, resultsSection, comparablesList,
                 loadingOverlay, lastHandled, calls, datalist, locationsLoad>>

EstimatorNext == Estimate

EstimatorSpec == EstimatorInit /\ [][EstimatorNext]_vars

\* ------------------------------------------------------------------------
\* Properties of the prediction client (Spec)
\* ------------------------------------------------------------------------

\* The request of call c failed: the fetch rejected, the status was not
\* 2xx, or the body of a 2xx response could not be parsed.
RequestFailed(c) ==
  \/ calls[c].response \in {"network error", "not ok"}
  \/ calls[c].response = "ok" /\ calls[c].body = <<>>

\* C1: whichever way the request of a finished call failed, the mock
\* prediction was generated and it is the result displayResults and
\* updateMap rendered; every finished call has rendered some result and the
\* results section is shown.
C1_FailureFallsBackToMock ==
  /\ \A c \in Done :
       /\ RequestFailed(c) => calls[c].mock # <<>> /\ calls[c].shown = calls[c].mock
       /\ calls[c].shown # <<>>
  /\ Done # {} => resultsSection.hidden = "removed"

\* Two finished calls, one failed by a network error and one by a non-2xx
\* status, each having rendered its mock prediction.
C1_Witness ==
  \E c, d \in Done :
    /\ calls[c].response = "network error" /\ calls[c].shown = calls[c].mock
    /\ calls[d].response = "not ok" /\ calls[d].shown = calls[d].mock
    /\ calls[c].shown # <<>> /\ calls[d].shown # <<>>

\* C2: whenever calls have been made and none is pending, the loading
\* overlay is hidden (every exit path of predictPrice ran showLoading(false)).
C2_LoadingClearedWhenIdle ==
  (calls # <<>> /\ Pending = {}) => loadingOverlay = "hidden"

\* Two calls have finished, one through the backend result and one through
\* the mock fallback, and the overlay is hidden.
C2_Witness ==
  /\ Len(calls) = 2 /\ Pending = {}
  /\ \E c, d \in Done : calls[c].mock = <<>> /\ calls[d].mock # <<>>
  /\ loadingOverlay = "hidden"

\* C3 as stated: in every state in which some call is pending, the loading
\* overlay is visible.
C3_VisibleWhilePending == Pending # {} => loadingOverlay = "visible"

\* C3 as amended: the overlay is visible from the start of each call until
\* the first call finishes after that start: for every pending call c, if
\* no call has finished since c started, the overlay is visible.
C3_VisibleUntilFirstFinish ==
  \A c \in Pending :
    Cardinality(Done) = calls[c].doneAtStart => loadingOverlay = "visible"

\* A call is pending that started after an earlier call had finished, and
\* the overlay is visible.
C3_Witness ==
  /\ Pending = {2} /\ Done = {1}
  /\ calls[2].doneAtStart = 1
  /\ loadingOverlay = "visible"

\* The result the call handled last rendered.
LastResult == calls[lastHandled].shown[1]

\* The comparables of a result (none when it has no such field).
ComparablesOf(result) ==
  IF "nearby_comparables" \in DOMAIN result THEN result.nearby_comparables ELSE <<>>

\* The markers one complete updateMap(result) places: the comparable
\* markers, in the order of the comparables.
ComparableMarkersOf(result) ==
  [i \in 1..Len(ComparablesOf(result)) |-> ComparableMarkerOf(ComparablesOf(result)[i])]

\* C4: once a call has been handled (updateMap has run to its end at least
\* once), the map holds exactly the prediction marker of the latest result
\* and one marker per comparable of it, markers and predictionMarker
\* reference exactly those, and the centre marker is gone.
C4_MapHoldsLatestMarkersOnly ==
  lastHandled # 0 =>
    /\ predictionMarker = <<PredictionMarkerOf(LastResult)>>
    /\ markers = ComparableMarkersOf(LastResult)
    /\ map.layers = predictionMarker \o markers
    /\ Len(map.layers) = 1 + Len(ComparablesOf(LastResult))
    /\ \A i \in 1..Len(map.layers) : map.layers[i] # CenterMarker

\* Two calls have been handled; the earlier left four comparable markers
\* and the later result has none: the map holds the one prediction marker.
C4_Witness ==
  /\ Done = {1, 2} /\ lastHandled = 2
  /\ calls[1].mock # <<>> /\ calls[1].shown = calls[1].mock
  /\ calls[2].mock = <<>> /\ ComparablesOf(LastResult) = <<>>
  /\ Len(map.layers) = 1

\* The children of #comparables-list that displayResults leaves for result.
ListOf(result) ==
  IF ComparablesOf(result) = <<>> THEN NoComparablesFound
  ELSE [i \in 1..Len(ComparablesOf(result)) |-> ComparableItem(ComparablesOf(result)[i])]

\* C5: at every point where no handler is running and a call has been
\* handled, the summary fields, the comparables list and the map markers all
\* show the result of the call that was handled last.
C5_LastResponseWins ==
  lastHandled # 0 =>
    /\ resultsSection.totalPrice = LastResult.total_estimated_price_formatted
    /\ resultsSection.pricePerSqft =
         <<"Rs.", toLocaleString(LastResult.predicted_price_per_sqft), " per sq.ft">>
    /\ resultsSection.ciLower =
         <<"Rs.", toLocaleString(LastResult.confidence_interval.lower)>>
    /\ resultsSection.ciUpper =
         <<"Rs.", toLocaleString(LastResult.confidence_interval.upper)>>
    /\ comparablesList = ListOf(LastResult)
    /\ predictionMarker = <<PredictionMarkerOf(LastResult)>>
    /\ markers = ComparableMarkersOf(LastResult)

\* Two overlapping calls, the second submitted answered first: the page
\* shows the result of the first call, which was handled last, and the two
\* results differ.
C5_Witness ==
  /\ Done = {1, 2} /\ lastHandled = 1
  /\ calls[2].doneAtStart = 0
  /\ calls[1].shown # calls[2].shown
  /\ resultsSection.totalPrice = calls[1].shown[1].total_estimated_price_formatted

\* The fields displayResults and updateMap read of a parsed body: a body
\* that has them all is rendered without an exception.
Renderable(body) ==
  /\ {"predicted_price_per_sqft", "confidence_interval", "coordinates"}
       \subseteq DOMAIN body
  /\ \A i \in 1..Len(ComparablesOf(body)) :
       {"total_sqft", "price_per_sqft", "latitude", "longitude"}
         \subseteq DOMAIN ComparablesOf(body)[i]

\* C6 as stated: after a 2xx response with a parseable body the backend's
\* object is what the call rendered, and the mock prediction was not
\* generated.
C6_ParsedBodyShownUnchanged ==
  \A c \in Done :
    (calls[c].response = "ok" /\ calls[c].body # <<>>) =>
      calls[c].shown = calls[c].body /\ calls[c].mock = <<>>

\* C6 as amended: after a 2xx response whose parsed body has the fields the
\* renderers read, the backend's object is what the call rendered and no
\* mock prediction was generated; the mock prediction is generated exactly
\* when the request failed or the parsed body lacks such a field.
C6_RenderableBodyShownUnchanged ==
  \A c \in Done :
    /\ (calls[c].response = "ok" /\ calls[c].body # <<>>
          /\ Renderable(calls[c].body[1])) =>
         calls[c].shown = calls[c].body /\ calls[c].mock = <<>>
    /\ calls[c].mock # <<>> <=>
         \/ RequestFailed(c)
         \/ calls[c].body # <<>> /\ ~Renderable(calls[c].body[1])

\* A finished call whose 2xx body, with a comparable, is what it rendered.
C6_Witness ==
  \E c \in Done :
    /\ calls[c].response = "ok" /\ calls[c].body # <<>>
    /\ Renderable(calls[c].body[1])
    /\ Len(ComparablesOf(calls[c].body[1])) > 0
    /\ calls[c].shown = calls[c].body /\ calls[c].mock = <<>>

\* ------------------------------------------------------------------------
\* Properties of the location loader (LocationsSpec)
\* ------------------------------------------------------------------------

\* The names of a parsed array body, in backend order (an entry that is
\* null or has no name gives none).
RECURSIVE NamesOf(_)
NamesOf(items) ==
  IF items = <<>> THEN <<>>
  ELSE (IF Head(items) # <<>> /\ "name" \in DOMAIN Head(items)[1]
          THEN <<Head(items)[1].name>> ELSE <<>>)
         \o NamesOf(Tail(items))

\* The load succeeded: a 2xx response whose body parsed to an array that
\* was processed without an error.
LoadSucceeded ==
  /\ locationsLoad.response = "ok" /\ locationsLoad.body # <<>>
  /\ locationsLoad.body[1].isArray
  /\ \A i \in 1..Len(locationsLoad.body[1].items) :
       locationsLoad.body[1].items[i] # <<>>

\* C7: after loadLocations the datalist holds exactly the backend's names
\* (on success) or exactly the twelve fallback names (on any failure), never
\* a mix of the two.
C7_BackendNamesOrFallback ==
  locationsLoad.pc = "done" =>
    IF LoadSucceeded THEN datalist = NamesOf(locationsLoad.body[1].items)
    ELSE datalist = defaultLocations

\* ------------------------------------------------------------------------
\* Properties of the mock estimator (EstimatorSpec)
\* ------------------------------------------------------------------------

Estimated == estimator # <<>> /\ estimator[1].result # <<>>

\* x <= y for two numbers
Leq(x, y) == ~Less(y, x)

EstimateOf == estimator[1].result[1]

\* C8: the rounded confidence bounds enclose the rounded price per square
\* foot: lower <= predicted_price_per_sqft <= upper.
C8_ConfidenceIntervalEnclosesPrice ==
  Estimated =>
    /\ Leq(EstimateOf.confidence_interval.lower, EstimateOf.predicted_price_per_sqft)
    /\ Leq(EstimateOf.predicted_price_per_sqft, EstimateOf.confidence_interval.upper)

\* The lowest price: bhk = 0, more than 2000 sq.ft and the lowest jitter,
\* with bounds strictly around the price.
C8_Witness ==
  /\ Estimated
  /\ estimator[1].formData.bhk = 0 /\ estimator[1].formData.total_sqft = Integer(2001)
  /\ estimator[1].rnd.price = Random(0)
  /\ Less(EstimateOf.confidence_interval.lower, EstimateOf.predicted_price_per_sqft)
  /\ Less(EstimateOf.predicted_price_per_sqft, EstimateOf.confidence_interval.upper)

\* The reference rule of C9: t occurs in s at some offset.
Occurs(s, t) ==
  \E k \in 0..(Len(s) - Len(t)) : \A j \in 1..Len(t) : s[k + j] = t[j]

\* The table entries whose name contains the location or is contained in
\* it, case-insensitively.
MatchingEntries(location) ==
  { i \in 1..Len(locationMap) :
      \/ Occurs(toLowerCase(locationMap[i].key), toLowerCase(location))
      \/ Occurs(toLowerCase(location), toLowerCase(locationMap[i].key)) }

Whitefield == <<Degrees(129698), Degrees(777500)>>

\* x lies within 0.075 + slack of the decimal n / 10000:
\* |10000 * x - n| <= 750 + 10000 * slack, computed exactly.
Within(x, n, slack) ==
  Leq(Abs(Sum(Product(x, Integer(10000)), Integer(-n))),
      Sum(Integer(750), Product(slack, Integer(10000))))

\* The coordinates the estimate holds are those of the first table entry (in
\* table order) that matches the location, and, when no entry matches, a
\* point within 0.075 + slack degree of the city centre; "whitefield" and
\* "Whitefield Main" both resolve to Whitefield.
FirstMatchOrNearCentre(slack) ==
  Estimated =>
    LET location == estimator[1].formData.location
        coords == <<EstimateOf.coordinates.latitude, EstimateOf.coordinates.longitude>>
        matching == MatchingEntries(location)
    IN  /\ matching # {} =>
             coords = locationMap[CHOOSE i \in matching :
                                    \A j \in matching : i <= j].coords
        /\ matching = {} =>
             /\ Within(coords[1], 129716, slack)
             /\ Within(coords[2], 775946, slack)
        /\ location \in {Units(<<"w", "h", "i", "t", "e", "f", "i", "e", "l", "d">>),
                         Units(<<"W", "h", "i", "t", "e", "f", "i", "e", "l", "d",
                           " ", "M", "a", "i", "n">>)}
             => coords = Whitefield

\* C9 as stated: the coordinates follow the reference rule (first matching
\* table entry in table order, case-insensitively, either direction), and
\* only when no entry matches are they a point within 0.075 degree of the
\* city centre in latitude and in longitude.
C9_FirstMatchOrNearCentre == FirstMatchOrNearCentre(Zero)

\* C9 as amended: the same, the unmatched point lying within 0.075 degree
\* of the centre up to the rounding of the doubles that hold the centre and
\* the sum (each off by at most 2^-47): at most 2^-46 degree further away.
C9_FirstMatchOrNearCentreRounded ==
  FirstMatchOrNearCentre(Dyadic(FALSE, <<1>>, -46))

\* A location that matches no entry has been resolved with the longitude
\* draw 0, to a longitude that is more than 0.075 degree from the centre's
\* and within the rounding of it.
C9_Witness ==
  /\ Estimated
  /\ MatchingEntries(estimator[1].formData.location) = {}
  /\ estimator[1].rnd.coords[2] = Random(0)
  /\ ~Within(EstimateOf.coordinates.longitude, 775946, Zero)
  /\ Within(EstimateOf.coordinates.longitude, 775946, Dyadic(FALSE, <<1>>, -46))

\* C10: the mock comparables are four, each with the request's bhk and a
\* distance between 0.5 and 2.5 km, sorted ascending by distance.
C10_FourComparablesSortedByDistance ==
  Estimated =>
    LET comps == EstimateOf.nearby_comparables
    IN  /\ Len(comps) = 4
        /\ \A i \in 1..Len(comps) :
             /\ comps[i].bhk = estimator[1].formData.bhk
             /\ Leq(Half, comps[i].distance_km)
             /\ Leq(comps[i].distance_km, Decimal(25, 10))
        /\ \A i \in 1..(Len(comps) - 1) :
             Leq(comps[i].distance_km, comps[i + 1].distance_km)

\* The comparables were drawn in descending order of distance, so the sort
\* has moved the entry generated last to the front.
C10_Witness ==
  /\ Estimated
  /\ estimator[1].rnd.comparables[1].distance_km = AlmostOne
  /\ estimator[1].rnd.comparables[4].distance_km = Random(0)
  /\ EstimateOf.nearby_comparables[1].location = "Adjacent"
  /\ EstimateOf.nearby_comparables[1].distance_km = Half
  /\ EstimateOf.nearby_comparables[4].distance_km = Decimal(25, 10)
====
